---- MODULE Spec2Model ----
(***************************************************************************)
(* fastify-openid-auth: the login handler factory and the two-phase login   *)
(* handler of src/login.ts, the Token Verifier and the Verify Handler of    *)
(* src/verify.ts, the Refresh Handler of src/refresh.ts, the Logout Handler *)
(* of src/logout.ts and the Parameter Resolver of src/utils.ts.  Spec is    *)
(* the login handler, SpecVerify the Verify Handler, SpecRefresh the        *)
(* Refresh Handler, SpecLogout the Logout Handler and SpecResolver the      *)
(* Parameter Resolver; SpecAll holds the four handlers, SpecConcurrent      *)
(* handlers with two requests in flight and SpecLive handlers under         *)
(* fairness.  They share the request slots and the handler's options.       *)
(*                                                                          *)
(* JavaScript values are modelled as strings; UNDEF is `undefined`.  An     *)
(* object is a function from a fixed key set to strings in which UNDEF      *)
(* marks an absent key.  A value that may be `undefined` or an object is a  *)
(* set holding no or one object (None, Some(o)).  One action is one run of  *)
(* the handler between two suspension points (await).                       *)
(***************************************************************************)
EXTENDS Integers, Sequences, FiniteSets, TLC

VARIABLES options, config, inFlight, handler, session, rnd, started, req,
          numStores, numConsumed, numExchanges, lastStored, storesAtConsume,
          issued

vars == <<options, config, inFlight, handler, session, rnd, started, req,
          numStores, numConsumed, numExchanges, lastStored, storesAtConsume,
          issued>>

\* ------------------------------------------------------------------ bounds
\* Requests handled in one behaviour.
MaxRequests == 3

\* The slots of the requests that may be in flight at the same time.
Reqs == {1, 2}

\* ------------------------------------------------------------ JS values
UNDEF == "undefined"
None == {}
Some(o) == {o}
The(x) == CHOOSE o \in x : TRUE

\* Object.keys(o): the keys that are present.
Keys(o) == {k \in DOMAIN o : o[k] # UNDEF}

\* { ...base, ...over }: later spread wins for every key it has.
Spread(base, over) == [k \in DOMAIN base |-> IF over[k] # UNDEF THEN over[k] ELSE base[k]]

\* params?.x on a value that may be undefined.
OptGet(x, k) == IF x = None THEN UNDEF ELSE The(x)[k]

\* -------------------------------------------------------------- login.ts
AuthKeys == {"scope", "state", "nonce", "redirect_uri", "response_type",
             "code_challenge", "code_challenge_method", "prompt"}
CheckKeys == {"state", "nonce", "pkceCodeVerifier"}

EmptyParams == [k \in AuthKeys |-> UNDEF]
EmptyChecks == [k \in CheckKeys |-> UNDEF]

\* createError(code, message, statusCode) applied to one %s argument.
CreateError(code, before, arg, after, statusCode) ==
  [code |-> code, message |-> before \o arg \o after, statusCode |-> statusCode]
NoError == [code |-> UNDEF, message |-> "", statusCode |-> 0]

SessionKeyError ==
  CreateError("FST_SESSION_KEY", "config must have an issuer with an identifier", "", "", 500)
SessionValueError(key) ==
  CreateError("FST_SESSION_VALUE",
              "did not find expected authorization request details in req.session[\"",
              key, "\"]", 500)
SupportedMethodError ==
  CreateError("FST_SUPPORTED_METHOD",
              "neither code_challenge_method supported by the client is supported by the issuer",
              "", "", 500)
\* An error raised by a collaborator (parameter function, token endpoint,
\* JWT verification, sink); it propagates unchanged.
CollaboratorError(code) == [code |-> code, message |-> "", statusCode |-> 0]

\* new URL(issuer).hostname for the issuers of the model.
Hostname(issuer) ==
  CASE issuer = "http://localhost:3001" -> "localhost"
    [] issuer = "https://idp.example.com/realm" -> "idp.example.com"
    [] OTHER -> ""

\* resolveRedirectUri: the single registered redirect URI, else undefined.
resolveRedirectUri(cfg) ==
  IF Len(cfg.redirect_uris) # 1 THEN UNDEF ELSE cfg.redirect_uris[1]

\* resolveSupportedMethod: [threw, value].
resolveSupportedMethodPlainFirst(cfg) ==
  LET supportedMethods == cfg.code_challenge_methods_supported IN
  IF supportedMethods = None \/ "plain" \in The(supportedMethods)
    THEN [threw |-> FALSE, value |-> "plain"]
  ELSE IF "S256" \in The(supportedMethods)
    THEN [threw |-> FALSE, value |-> "S256"]
  ELSE [threw |-> TRUE, value |-> UNDEF]

resolveSupportedMethod(cfg) ==
  LET supportedMethods == cfg.code_challenge_methods_supported IN
  IF supportedMethods = None \/ "S256" \in The(supportedMethods)
    THEN [threw |-> FALSE, value |-> "S256"]
  ELSE IF "plain" \in The(supportedMethods)
    THEN [threw |-> FALSE, value |-> "plain"]
  ELSE [threw |-> TRUE, value |-> UNDEF]

\* resolveSessionKey: [threw, value].
resolveSessionKey(cfg) ==
  IF cfg.issuer = UNDEF
    THEN [threw |-> TRUE, value |-> UNDEF]
    ELSE [threw |-> FALSE, value |-> "oidc:" \o Hostname(cfg.issuer)]

\* openIDLoginHandlerFactory up to the returned handler: the session key is
\* resolved first, then the PKCE method; either may throw.
FactoryResultPKCEByDefault(opts, cfg) ==
  LET key == IF opts.sessionKey # UNDEF
               THEN [threw |-> FALSE, value |-> opts.sessionKey]
               ELSE resolveSessionKey(cfg)
      pkce == IF opts.usePKCE # UNDEF
                THEN IF opts.usePKCE = "true"
                       THEN resolveSupportedMethod(cfg)
                       ELSE [threw |-> FALSE, value |-> opts.usePKCE]
                ELSE [threw |-> FALSE, value |-> "plain"]
  IN IF key.threw
       THEN [status |-> "threw", error |-> SessionKeyError,
             sessionKey |-> UNDEF, usePKCE |-> UNDEF]
     ELSE IF pkce.threw
       THEN [status |-> "threw", error |-> SupportedMethodError,
             sessionKey |-> UNDEF, usePKCE |-> UNDEF]
     ELSE [status |-> "ready", error |-> NoError,
           sessionKey |-> key.value, usePKCE |-> pkce.value]

FactoryResultIssuerKeyOnly(opts, cfg) ==
  LET key == resolveSessionKey(cfg)
      pkce == IF opts.usePKCE # UNDEF
                THEN IF opts.usePKCE = "true"
                       THEN resolveSupportedMethod(cfg)
                       ELSE [threw |-> FALSE, value |-> opts.usePKCE]
                ELSE [threw |-> FALSE, value |-> "false"]
  IN IF key.threw
       THEN [status |-> "threw", error |-> SessionKeyError,
             sessionKey |-> UNDEF, usePKCE |-> UNDEF]
     ELSE IF pkce.threw
       THEN [status |-> "threw", error |-> SupportedMethodError,
             sessionKey |-> UNDEF, usePKCE |-> UNDEF]
     ELSE [status |-> "ready", error |-> NoError,
           sessionKey |-> key.value, usePKCE |-> pkce.value]

FactoryResult(opts, cfg) ==
  LET key == IF opts.sessionKey # UNDEF
               THEN [threw |-> FALSE, value |-> opts.sessionKey]
               ELSE resolveSessionKey(cfg)
      pkce == IF opts.usePKCE # UNDEF
                THEN IF opts.usePKCE = "true"
                       THEN resolveSupportedMethod(cfg)
                       ELSE [threw |-> FALSE, value |-> opts.usePKCE]
                ELSE [threw |-> FALSE, value |-> "false"]
  IN IF key.threw
       THEN [status |-> "threw", error |-> SessionKeyError,
             sessionKey |-> UNDEF, usePKCE |-> UNDEF]
     ELSE IF pkce.threw
       THEN [status |-> "threw", error |-> SupportedMethodError,
             sessionKey |-> UNDEF, usePKCE |-> UNDEF]
     ELSE [status |-> "ready", error |-> NoError,
           sessionKey |-> key.value, usePKCE |-> pkce.value]


\* ------------------------------------------------------------- utils.ts
\* A Resolvable<T> option: undefined, a plain mapping, or a function of
\* (request, reply); `returns` are the mappings a function may return and
\* `throws` the error it may raise.  resolveParameters gives the set of
\* results the call can have: a function returns one of its mappings or
\* throws.
Returned(v) == [threw |-> FALSE, error |-> NoError, value |-> v]
Thrown(e) == [threw |-> TRUE, error |-> e, value |-> None]

resolveParametersSwallowing(parameters) ==
  IF parameters.kind = "function"
    THEN {Returned(Some(o)) : o \in parameters.returns} \cup {Returned(None)}
  ELSE IF parameters.kind = "object"
    THEN {Returned(Some(o)) : o \in parameters.returns}
  ELSE {Returned(None)}

resolveParameters(parameters) ==
  IF parameters.kind = "function"
    THEN {Returned(Some(o)) : o \in parameters.returns}
           \cup {Thrown(CollaboratorError(parameters.throws))}
  ELSE IF parameters.kind = "object"
    THEN {Returned(Some(o)) : o \in parameters.returns}
  ELSE {Returned(None)}

\* ------------------------------------------------------------ verify.ts
TokenKeys == {"id_token", "access_token", "refresh_token"}
EmptyVerified == [k \in TokenKeys |-> None]

\* The key of a Verification Spec: key material, or a JWTVerifyGetKey
\* function that resolves to key material or throws when it finds none.
StaticKey(material) == [kind |-> "static", material |-> material]
KeyFunction(material) == [kind |-> "function", material |-> material]

\* The compact JWTs of the model; any other string is not a JWT.  All are
\* issued by the same issuer for the same client.
JWTs == {"jwt.signed-by.k1", "jwt.signed-by.k2", "jwt.tampered"}
JWTPayload(jwt) == [iss |-> "https://test-issuer.example.com", aud |-> "test-client"]

\* jose jwtVerify(jwt, key, options): the token is decoded, the key is
\* resolved (a function key is called), the signature and then the claims
\* are checked.  The result is { payload, protectedHeader }; the overload
\* for a function key also returns the key that was resolved.
jwtVerifyLenientKeyFunction(jwt, key, opts) ==
  IF jwt \notin JWTs
    THEN Thrown(CollaboratorError("ERR_JWS_INVALID"))
  ELSE IF key.kind = "function" /\ jwt # "jwt.signed-by." \o key.material
    THEN Returned(None)
  ELSE IF jwt # "jwt.signed-by." \o key.material
    THEN Thrown(CollaboratorError("ERR_JWS_SIGNATURE_VERIFICATION_FAILED"))
  ELSE IF opts # None /\ (The(opts).issuer # JWTPayload(jwt).iss
                           \/ The(opts).audience # JWTPayload(jwt).aud)
    THEN Thrown(CollaboratorError("ERR_JWT_CLAIM_VALIDATION_FAILED"))
  ELSE Returned(Some([payload |-> "payload(" \o jwt \o ")",
                      protectedHeader |-> "header(" \o jwt \o ")",
                      key |-> IF key.kind = "function" THEN key.material ELSE UNDEF]))

jwtVerify(jwt, key, opts) ==
  IF jwt \notin JWTs
    THEN Thrown(CollaboratorError("ERR_JWS_INVALID"))
  ELSE IF key.kind = "function" /\ key.material = UNDEF
    THEN Thrown(CollaboratorError("ERR_JWKS_NO_MATCHING_KEY"))
  ELSE IF jwt # "jwt.signed-by." \o key.material
    THEN Thrown(CollaboratorError("ERR_JWS_SIGNATURE_VERIFICATION_FAILED"))
  ELSE IF opts # None /\ (The(opts).issuer # JWTPayload(jwt).iss
                           \/ The(opts).audience # JWTPayload(jwt).aud)
    THEN Thrown(CollaboratorError("ERR_JWT_CLAIM_VALIDATION_FAILED"))
  ELSE Returned(Some([payload |-> "payload(" \o jwt \o ")",
                      protectedHeader |-> "header(" \o jwt \o ")",
                      key |-> IF key.kind = "function" THEN key.material ELSE UNDEF]))

\* Line 39, verified[token] = result: the objects after the assignment.
StoreResultInTokenset(tokenset, verified, token, result) ==
  [tokenset |-> [tokenset EXCEPT ![token] = "[object Object]"],
   verified |-> [verified EXCEPT ![token] = result]]

StoreResult(tokenset, verified, token, result) ==
  [tokenset |-> tokenset, verified |-> [verified EXCEPT ![token] = result]]

\* Line 34, jwt !== undefined: the token kind is attempted.
PresentAlways(jwt) == TRUE

PresentTruthy(jwt) == jwt # UNDEF /\ jwt # ""

Present(jwt) == jwt # UNDEF

\* What a call of openIDJWTVerify leaves: its result or error, the token
\* set object as it is afterwards, and the token kinds handed to jwtVerify.
Completed(res, tokenset, attempted) ==
  [threw |-> res.threw, error |-> res.error, value |-> res.value,
   tokenset |-> tokenset, attempted |-> attempted]

\* openIDJWTVerify: the loop over `tokens`, from index i on.
RECURSIVE VerifyFromKeepGoing(_, _, _, _, _)
VerifyFromKeepGoing(tokenset, verify, i, verified, attempted) ==
  IF i > Len(verify.tokens) THEN Completed(Returned(verified), tokenset, attempted)
  ELSE LET token == verify.tokens[i]
           jwt == tokenset[token]
       IN IF Present(jwt)
            THEN LET result == jwtVerify(jwt, verify.key, verify.options)
                     after == StoreResult(tokenset, verified, token, result.value)
                 IN IF result.threw
                      THEN VerifyFromKeepGoing(tokenset, verify, i + 1, verified,
                                               Append(attempted, token))
                      ELSE VerifyFromKeepGoing(after.tokenset, verify, i + 1,
                                               after.verified, Append(attempted, token))
            ELSE VerifyFromKeepGoing(tokenset, verify, i + 1, verified, attempted)

RECURSIVE VerifyFrom(_, _, _, _, _)
VerifyFrom(tokenset, verify, i, verified, attempted) ==
  IF i > Len(verify.tokens) THEN Completed(Returned(verified), tokenset, attempted)
  ELSE LET token == verify.tokens[i]
           jwt == tokenset[token]
       IN IF Present(jwt)
            THEN LET result == jwtVerify(jwt, verify.key, verify.options)
                     after == StoreResult(tokenset, verified, token, result.value)
                 IN IF result.threw
                      THEN Completed(Thrown(result.error), tokenset,
                                     Append(attempted, token))
                      ELSE VerifyFrom(after.tokenset, verify, i + 1, after.verified,
                                      Append(attempted, token))
            ELSE VerifyFrom(tokenset, verify, i + 1, verified, attempted)

openIDJWTVerify(tokenset, verify) ==
  VerifyFrom(tokenset, verify, 1, EmptyVerified, << >>)

\* ------------------------------------------------- openid-client, jose
\* randomState / randomNonce / randomPKCECodeVerifier: the n-th draw of the
\* random source; draws are collision-free and never empty.
Rand(n) == "rnd" \o ToString(n)
randomStateOnce(n) == Rand(1)

randomState(n) == Rand(n + 1)
randomNonce(n) == Rand(n + 2)
randomPKCECodeVerifier(n) == Rand(n + 3)

\* calculatePKCECodeChallenge: base64url(SHA-256(verifier)), a one-way
\* injective image of the verifier.
calculatePKCECodeChallenge(verifier) == "S256(" \o verifier \o ")"

\* buildAuthorizationUrl: the authorization endpoint with the parameters as
\* its query.
buildAuthorizationUrl(cfg, parameters) ==
  [endpoint |-> cfg.authorization_endpoint, searchParams |-> parameters]

\* Token sets the token endpoint may answer with.
GrantTokenSets == {
  [id_token |-> "jwt.signed-by.k1", access_token |-> "opaque-at", refresh_token |-> "opaque-rt"],
  [id_token |-> "jwt.tampered", access_token |-> "opaque-at", refresh_token |-> UNDEF]}

\* authorizationCodeGrant: rejects an error response and a state that is
\* not the expected one; otherwise the token endpoint answers or fails.
authorizationCodeGrant(query, checks) ==
  IF query.error # UNDEF \/ query.code = UNDEF \/ query.state # checks.expectedState
    THEN {Thrown(CollaboratorError("AuthorizationResponseError"))}
    ELSE {Returned(Some(t)) : t \in GrantTokenSets}
           \cup {Thrown(CollaboratorError("TokenEndpointError"))}


\* ------------------------------------------------- the handler's state
\* One request slot: the handler's locals and what the request has done.
NoQuery == [code |-> UNDEF, error |-> UNDEF, state |-> UNDEF]
IdleReq ==
  [id |-> 0, pc |-> "idle", query |-> NoQuery, phase |-> "none",
   params |-> None, parameters |-> EmptyParams, callbackChecks |-> EmptyChecks,
   stored |-> None, authUrl |-> None,
   got |-> FALSE, loaded |-> None, latestAtLoad |-> None, replay |-> FALSE,
   cleared |-> FALSE,
   tokenParams |-> None, grant |-> None, tokenset |-> None,
   verifiedOn |-> None, verified |-> None, sink |-> None,
   read |-> None, attempted |-> << >>, calls |-> << >>,
   now |-> 0, expired |-> None,
   url |-> UNDEF, callbackPath |-> None, endSessionUrl |-> None,
   status |-> 0, body |-> None,
   outcome |-> "none", error |-> NoError]

\* const isCallback = query.code !== undefined || query.error !== undefined
isCallbackCodeOnly(query) == query.code # UNDEF

isCallback(query) == query.code # UNDEF \/ query.error # UNDEF

\* The handler returns or throws: the request is over.
FinishPending(rec, outcome) == [rec EXCEPT !.outcome = outcome]
Finish(rec, outcome) == [rec EXCEPT !.pc = "idle", !.outcome = outcome]
Throw(rec, error) == [rec EXCEPT !.pc = "idle", !.outcome = "error", !.error = error]

\* Queries a client may send: none, a `state` alone, and authorization
\* responses (`code` or `error`) whose `state` is absent, the client's own,
\* or the state of an authorization URL it was redirected to.
UrlStates == {issued[i].urlState : i \in 1..Len(issued)}
Queries ==
  {NoQuery, [NoQuery EXCEPT !.state = "forged"]}
    \cup {[code |-> "abc123", error |-> UNDEF, state |-> s] : s \in UrlStates \cup {"forged"}}
    \cup {[code |-> UNDEF, error |-> "access_denied", state |-> s] : s \in UrlStates \cup {UNDEF}}

\* ------------------------------------------------------------- actions
\* openIDLoginHandlerFactory(config, options).
Factory ==
  /\ options.handler = "login"
  /\ handler.status = "none"
  /\ handler' = FactoryResult(options, config)
  /\ UNCHANGED <<options, config, inFlight, session, rnd, started, req, numStores,
                 numConsumed, numExchanges, lastStored, storesAtConsume, issued>>

\* The host routes a request to the handler, which calls resolveParameters
\* and suspends.
Request(r) ==
  /\ options.handler = "login"
  /\ handler.status = "ready"
  /\ req[r].pc = "idle"
  /\ \A q \in Reqs : q < r => req[q].pc # "idle"
  /\ Cardinality({q \in Reqs : req[q].pc # "idle"}) < inFlight
  /\ started < MaxRequests
  /\ \E query \in Queries :
       req' = [req EXCEPT ![r] =
                 [IdleReq EXCEPT !.id = started + 1, !.pc = "resolveParameters",
                                 !.query = query]]
  /\ started' = started + 1
  /\ UNCHANGED <<options, config, inFlight, handler, session, rnd, numStores,
                 numConsumed, numExchanges, lastStored, storesAtConsume, issued>>

ResolveParametersAfterClear(r) ==
  /\ req[r].pc = "resolveParameters"
  /\ \E res \in resolveParameters(options.parameters) :
       /\ req' = [req EXCEPT ![r] =
                    IF res.threw THEN Throw(@, res.error)
                    ELSE [@ EXCEPT !.pc = "selectPhase", !.params = res.value]]
       /\ session' = IF res.threw /\ isCallback(req[r].query)
                       THEN [session EXCEPT ![handler.sessionKey] = None]
                       ELSE session
  /\ UNCHANGED <<options, config, inFlight, handler, rnd, started, numStores,
                 numConsumed, numExchanges, lastStored, storesAtConsume, issued>>

\* const params = await resolveParameters(options?.parameters, request, reply)
ResolveParameters(r) ==
  /\ req[r].pc = "resolveParameters"
  /\ \E res \in resolveParameters(options.parameters) :
       req' = [req EXCEPT ![r] =
                 IF res.threw THEN Throw(@, res.error)
                 ELSE [@ EXCEPT !.pc = "selectPhase", !.params = res.value]]
  /\ UNCHANGED <<options, config, inFlight, handler, session, rnd, started, numStores,
                 numConsumed, numExchanges, lastStored, storesAtConsume, issued>>

\* Lines 133-143: the generated state and nonce and the merged parameters.
MergedParametersDefaultsWin(state, nonce, redirect_uri, params) ==
  Spread(IF params = None THEN EmptyParams ELSE The(params),
         [EmptyParams EXCEPT !["scope"] = "openid", !["state"] = state,
                             !["nonce"] = nonce,
                             !["redirect_uri"] = IF redirect_uri = UNDEF THEN "" ELSE redirect_uri,
                             !["response_type"] = "code"])

MergedParameters(state, nonce, redirect_uri, params) ==
  Spread([EmptyParams EXCEPT !["scope"] = "openid", !["state"] = state,
                             !["nonce"] = nonce,
                             !["redirect_uri"] = IF redirect_uri = UNDEF THEN "" ELSE redirect_uri,
                             !["response_type"] = "code"],
         IF params = None THEN EmptyParams ELSE The(params))

\* Lines 145-153: the callback checks of a redirect.
NewCallbackChecks(state, nonce, verifier) ==
  [state |-> state, nonce |-> nonce, pkceCodeVerifier |-> verifier]

\* Lines 154-164: the challenge fields for the PKCE method.
WithChallengeCallerWins(parameters, method, challenge) ==
  Spread([EmptyParams EXCEPT !["code_challenge"] = challenge,
                             !["code_challenge_method"] = method],
         parameters)

WithChallenge(parameters, method, challenge) ==
  [parameters EXCEPT !["code_challenge"] = challenge,
                     !["code_challenge_method"] = method]

\* Lines 167-170 up to the await: request.session.set(sessionKey,
\* callbackChecks), then buildAuthorizationUrl.
BuildWithoutStore(r, rec) ==
  /\ req' = [req EXCEPT ![r] =
               [rec EXCEPT !.pc = "redirect",
                           !.authUrl = Some(buildAuthorizationUrl(config, rec.parameters))]]
  /\ UNCHANGED <<session, numStores, lastStored, issued>>

StoreAndBuildKeepFirst(r, rec) ==
  /\ session' = IF session[handler.sessionKey] = None
                  \/ Keys(The(session[handler.sessionKey])) = {}
                  THEN [session EXCEPT ![handler.sessionKey] = Some(rec.callbackChecks)]
                  ELSE session
  /\ req' = [req EXCEPT ![r] =
               [rec EXCEPT !.pc = "redirect",
                           !.stored = Some(rec.callbackChecks),
                           !.authUrl = Some(buildAuthorizationUrl(config, rec.parameters))]]
  /\ numStores' = numStores + 1
  /\ lastStored' = Some(rec.callbackChecks)
  /\ issued' = Append(issued, [id |-> rec.id,
                               state |-> rec.callbackChecks.state,
                               nonce |-> rec.callbackChecks.nonce,
                               urlState |-> rec.parameters["state"]])

StoreAndBuild(r, rec) ==
  /\ session' = [session EXCEPT ![handler.sessionKey] = Some(rec.callbackChecks)]
  /\ req' = [req EXCEPT ![r] =
               [rec EXCEPT !.pc = "redirect",
                           !.stored = Some(rec.callbackChecks),
                           !.authUrl = Some(buildAuthorizationUrl(config, rec.parameters))]]
  /\ numStores' = numStores + 1
  /\ lastStored' = Some(rec.callbackChecks)
  /\ issued' = Append(issued, [id |-> rec.id,
                               state |-> rec.callbackChecks.state,
                               nonce |-> rec.callbackChecks.nonce,
                               urlState |-> rec.parameters["state"]])

\* if (!isCallback) { ... }: the authorization request, up to its first
\* await (calculatePKCECodeChallenge with S256, else reply.redirect).
AuthorizationRequest(r) ==
  /\ req[r].pc = "selectPhase"
  /\ ~isCallback(req[r].query)
  /\ LET redirect_uri == IF OptGet(req[r].params, "redirect_uri") # UNDEF
                           THEN OptGet(req[r].params, "redirect_uri")
                           ELSE resolveRedirectUri(config)
         state == randomState(rnd)
         nonce == randomNonce(rnd)
         parameters == MergedParameters(state, nonce, redirect_uri, req[r].params)
         usePKCE == handler.usePKCE
         verifier == IF usePKCE # "false" THEN randomPKCECodeVerifier(rnd) ELSE UNDEF
         rec == [req[r] EXCEPT !.phase = "request",
                               !.callbackChecks = NewCallbackChecks(state, nonce, verifier),
                               !.parameters = IF usePKCE = "plain"
                                                THEN WithChallenge(parameters, "plain", verifier)
                                                ELSE parameters]
     IN /\ rnd' = IF usePKCE # "false" THEN rnd + 3 ELSE rnd + 2
        /\ IF usePKCE = "S256"
             THEN /\ req' = [req EXCEPT ![r] = [rec EXCEPT !.pc = "challenge"]]
                  /\ UNCHANGED <<session, numStores, lastStored, issued>>
             ELSE StoreAndBuild(r, rec)
  /\ UNCHANGED <<options, config, inFlight, handler, started, numConsumed, numExchanges,
                 storesAtConsume>>

\* parameters.code_challenge = await calculatePKCECodeChallenge(verifier)
\* and the rest of the S256 case.
CodeChallenge(r) ==
  /\ req[r].pc = "challenge"
  /\ StoreAndBuild(r, [req[r] EXCEPT !.parameters =
         WithChallenge(@, "S256",
                       calculatePKCECodeChallenge(req[r].callbackChecks.pkceCodeVerifier))])
  /\ UNCHANGED <<options, config, inFlight, handler, rnd, started, numConsumed,
                 numExchanges, storesAtConsume>>

RedirectThenWrite(r) ==
  /\ req[r].pc = "redirect"
  /\ req' = [req EXCEPT ![r] =
               Finish([@ EXCEPT !.sink = Some([tokenset |-> req[r].tokenset,
                                               verified |-> req[r].verified])],
                      "redirect")]
  /\ UNCHANGED <<options, config, inFlight, handler, session, rnd, started, numStores,
                 numConsumed, numExchanges, lastStored, storesAtConsume, issued>>

\* return await reply.redirect(authUrl.href)
Redirect(r) ==
  /\ req[r].pc = "redirect"
  /\ req' = [req EXCEPT ![r] = Finish(@, "redirect")]
  /\ UNCHANGED <<options, config, inFlight, handler, session, rnd, started, numStores,
                 numConsumed, numExchanges, lastStored, storesAtConsume, issued>>


\* Lines 176-179: callbackChecks === undefined ||
\* Object.keys(callbackChecks).length === 0
NoChecksUndefinedOnly(entry) == entry = None

NoChecks(entry) == entry = None \/ Keys(The(entry)) = {}

\* Line 183: request.session.set(sessionKey, undefined)
ConsumedSessionKept(sess, key) == sess

ConsumedSessionDefaultKey(sess, key) == [sess EXCEPT !["oidc:localhost"] = None]

ConsumedSession(sess, key) == [sess EXCEPT ![key] = None]

CallbackLoadThenSuspend(r) ==
  /\ req[r].pc = "selectPhase"
  /\ isCallback(req[r].query)
  /\ LET entry == session[handler.sessionKey]
         rec == [req[r] EXCEPT !.phase = "callback", !.got = TRUE,
                               !.loaded = entry, !.latestAtLoad = lastStored,
                               !.replay = numConsumed > 0 /\ numStores = storesAtConsume]
     IN IF NoChecks(entry)
          THEN /\ req' = [req EXCEPT ![r] = Throw(rec, SessionValueError(handler.sessionKey))]
               /\ UNCHANGED <<session, numConsumed, storesAtConsume>>
          ELSE /\ session' = session
               /\ req' = [req EXCEPT ![r] =
                            [rec EXCEPT !.pc = "tokenParameters",
                                        !.callbackChecks = The(entry)]]
               /\ numConsumed' = numConsumed + 1
               /\ storesAtConsume' = numStores
  /\ UNCHANGED <<options, config, inFlight, handler, rnd, started, numStores,
                 numExchanges, lastStored, issued>>

\* Lines 175-183: load the checks, fail when there are none, clear the
\* entry; no await in between.  Then the token-endpoint parameters are
\* resolved (awaited) before authorizationCodeGrant is called.
Callback(r) ==
  /\ req[r].pc = "selectPhase"
  /\ isCallback(req[r].query)
  /\ LET entry == session[handler.sessionKey]
         rec == [req[r] EXCEPT !.phase = "callback", !.got = TRUE,
                               !.loaded = entry, !.latestAtLoad = lastStored,
                               !.replay = numConsumed > 0 /\ numStores = storesAtConsume]
     IN IF NoChecks(entry)
          THEN /\ req' = [req EXCEPT ![r] = Throw(rec, SessionValueError(handler.sessionKey))]
               /\ UNCHANGED <<session, numConsumed, storesAtConsume>>
          ELSE /\ session' = ConsumedSession(session, handler.sessionKey)
               /\ req' = [req EXCEPT ![r] =
                            [rec EXCEPT !.pc = "tokenParameters",
                                        !.callbackChecks = The(entry),
                                        !.cleared = TRUE]]
               /\ numConsumed' = numConsumed + 1
               /\ storesAtConsume' = numStores
  /\ UNCHANGED <<options, config, inFlight, handler, rnd, started, numStores,
                 numExchanges, lastStored, issued>>

\* await resolveParameters(tokenEndpoint?.parameters, request, reply)
TokenEndpointParameters(r) ==
  /\ req[r].pc = "tokenParameters"
  /\ \E res \in resolveParameters(options.tokenEndpoint) :
       req' = [req EXCEPT ![r] =
                 IF res.threw THEN Throw(@, res.error)
                 ELSE [@ EXCEPT !.pc = "grant", !.tokenParams = res.value]]
  /\ UNCHANGED <<options, config, inFlight, handler, session, rnd, started, numStores,
                 numConsumed, numExchanges, lastStored, storesAtConsume, issued>>

\* Lines 194-198: the checks argument of authorizationCodeGrant.
GrantChecksSwapped(callbackChecks) ==
  [pkceCodeVerifier |-> callbackChecks.pkceCodeVerifier,
   expectedState |-> callbackChecks.nonce,
   expectedNonce |-> callbackChecks.state]

GrantChecks(callbackChecks) ==
  [pkceCodeVerifier |-> callbackChecks.pkceCodeVerifier,
   expectedState |-> callbackChecks.state,
   expectedNonce |-> callbackChecks.nonce]

\* const tokenset = await authorizationCodeGrant(config, currentUrl,
\* checks, tokenEndpointParameters, tokenEndpoint?.options)
AuthorizationCodeGrantRetrying(r) ==
  /\ req[r].pc = "grant"
  /\ LET checks == GrantChecks(req[r].callbackChecks)
         rec == [req[r] EXCEPT !.grant = Some([checks |-> checks,
                                               parameters |-> req[r].tokenParams]),
                               !.calls = Append(@, "grant")]
     IN \E res \in authorizationCodeGrant(req[r].query, checks) :
          req' = [req EXCEPT ![r] =
                    IF res.threw
                      THEN IF Len(rec.calls) < 2 THEN rec ELSE Throw(rec, res.error)
                      ELSE [rec EXCEPT !.pc = "verify", !.tokenset = res.value]]
  /\ numExchanges' = numExchanges + 1
  /\ UNCHANGED <<options, config, inFlight, handler, session, rnd, started, numStores,
                 numConsumed, lastStored, storesAtConsume, issued>>

AuthorizationCodeGrant(r) ==
  /\ req[r].pc = "grant"
  /\ LET checks == GrantChecks(req[r].callbackChecks)
         rec == [req[r] EXCEPT !.grant = Some([checks |-> checks,
                                               parameters |-> req[r].tokenParams]),
                               !.calls = Append(@, "grant")]
     IN \E res \in authorizationCodeGrant(req[r].query, checks) :
          req' = [req EXCEPT ![r] =
                    IF res.threw THEN Throw(rec, res.error)
                    ELSE [rec EXCEPT !.pc = "verify", !.tokenset = res.value]]
  /\ numExchanges' = numExchanges + 1
  /\ UNCHANGED <<options, config, inFlight, handler, session, rnd, started, numStores,
                 numConsumed, lastStored, storesAtConsume, issued>>

\* const verified = verify !== undefined
\*   ? await openIDJWTVerify(tokenset, verify) : undefined
VerifyIgnoringFailure(r) ==
  /\ req[r].pc = "verify"
  /\ req' = [req EXCEPT ![r] =
               IF options.verify # None
                 THEN LET res == openIDJWTVerify(The(req[r].tokenset), The(options.verify))
                      IN [@ EXCEPT !.pc = "write", !.verifiedOn = req[r].tokenset,
                                   !.verified = IF res.threw THEN None ELSE Some(res.value)]
                 ELSE [@ EXCEPT !.pc = "write"]]
  /\ UNCHANGED <<options, config, inFlight, handler, session, rnd, started, numStores,
                 numConsumed, numExchanges, lastStored, storesAtConsume, issued>>

Verify(r) ==
  /\ req[r].pc = "verify"
  /\ req' = [req EXCEPT ![r] =
               IF options.verify # None
                 THEN LET res == openIDJWTVerify(The(req[r].tokenset), The(options.verify))
                      IN IF res.threw
                           THEN Throw([@ EXCEPT !.verifiedOn = req[r].tokenset], res.error)
                           ELSE [@ EXCEPT !.pc = "write", !.verifiedOn = req[r].tokenset,
                                          !.verified = Some(res.value)]
                 ELSE [@ EXCEPT !.pc = "write"]]
  /\ UNCHANGED <<options, config, inFlight, handler, session, rnd, started, numStores,
                 numConsumed, numExchanges, lastStored, storesAtConsume, issued>>

\* return await write?.call(this, request, reply, tokenset, verified):
\* the sink answers or throws; without a sink the handler returns undefined.
Write(r) ==
  /\ req[r].pc = "write"
  /\ IF options.write = UNDEF
       THEN req' = [req EXCEPT ![r] = Finish(@, "noop")]
       ELSE \E threw \in BOOLEAN :
              LET args == [tokenset |-> req[r].tokenset, verified |-> req[r].verified]
              IN req' = [req EXCEPT ![r] =
                           IF threw
                             THEN Throw([@ EXCEPT !.sink = Some(args)], CollaboratorError("SinkError"))
                             ELSE Finish([@ EXCEPT !.sink = Some(args)], "sink")]
  /\ UNCHANGED <<options, config, inFlight, handler, session, rnd, started, numStores,
                 numConsumed, numExchanges, lastStored, storesAtConsume, issued>>

\* ------------------------------------------------------- specification
SessionKeys == {"custom-session-key", "oidc:localhost"}

Methods == {None, Some({}), Some({"plain"}), Some({"S256", "plain"})}

\* Mappings a caller may configure: extra and overriding keys, among them
\* the anti-forgery and PKCE keys the handler sets itself.
CallerParameters ==
  {[EmptyParams EXCEPT !["scope"] = "openid profile email", !["prompt"] = "consent",
                       !["code_challenge"] = "caller-challenge",
                       !["code_challenge_method"] = "caller-method"],
   [EmptyParams EXCEPT !["state"] = "my-state",
                       !["redirect_uri"] = "http://localhost:8080/custom-login",
                       !["code_challenge_method"] = "caller-method"]}

\* The static mapping of a handler configured with an object.
StaticParameters ==
  [EmptyParams EXCEPT !["scope"] = "openid profile email", !["prompt"] = "consent"]

TokenParameters == {[EmptyParams EXCEPT !["scope"] = "openid"]}

Undefined == [kind |-> "undefined", returns |-> {}, throws |-> UNDEF]
Object(o) == [kind |-> "object", returns |-> {o}, throws |-> UNDEF]
Function(os, e) == [kind |-> "function", returns |-> os, throws |-> e]

VerifyOptions ==
  {None, Some([key |-> StaticKey("k1"), options |-> None, tokens |-> <<"id_token">>])}

Start ==
  /\ handler = [status |-> "none", error |-> NoError, sessionKey |-> UNDEF, usePKCE |-> UNDEF]
  /\ rnd = 0
  /\ started = 0
  /\ req = [r \in Reqs |-> IdleReq]
  /\ numStores = 0
  /\ numConsumed = 0
  /\ numExchanges = 0
  /\ lastStored = None
  /\ storesAtConsume = 0
  /\ issued = << >>

\* usePKCE with the issuer metadata the factory reads for it:
\* code_challenge_methods_supported is read only when usePKCE is true.
PKCEChoices ==
  {<<"true", m>> : m \in Methods}
    \cup {<<u, None>> : u \in {UNDEF, "false", "S256", "plain"}}

\* sessionKey with the issuer identifier, which is read only without it.
SessionKeyChoices ==
  {<<UNDEF, UNDEF>>, <<UNDEF, "http://localhost:3001">>,
   <<"custom-session-key", "http://localhost:3001">>}

Options(pkce, key, parameters, tokenEndpoint, verify, write) ==
  [handler |-> "login", usePKCE |-> pkce[1], sessionKey |-> key[1],
   parameters |-> parameters,
   tokenEndpoint |-> tokenEndpoint, verify |-> verify, write |-> write]

Configuration(pkce, key) ==
  [issuer |-> key[2], code_challenge_methods_supported |-> pkce[2],
   redirect_uris |-> <<"http://localhost:8080/callback">>,
   authorization_endpoint |-> "http://localhost:3001/auth"]

\* Every handler configuration with requests handled one at a time, and
\* the fullest configurations with two requests in flight.
Init ==
  /\ \E pkce \in PKCEChoices, key \in SessionKeyChoices,
        parameters \in {Undefined, Object(StaticParameters),
                        Function(CallerParameters, "AuthorizationParametersError")},
        tokenEndpoint \in {Undefined, Function(TokenParameters, "TokenParametersError")},
        verify \in VerifyOptions, write \in {UNDEF, "write"} :
       /\ options = Options(pkce, key, parameters, tokenEndpoint, verify, write)
       /\ config = Configuration(pkce, key)
       /\ \/ inFlight = 1
          \/ /\ inFlight = Cardinality(Reqs)
             /\ pkce[1] = "S256" /\ key[1] = UNDEF
             /\ parameters.kind = "function" /\ tokenEndpoint.kind = "function"
             /\ verify # None /\ write # UNDEF
  /\ session \in {[k \in SessionKeys |-> e] : e \in {None, Some(EmptyChecks)}}
  /\ Start

Next ==
  \/ Factory
  \/ \E r \in Reqs :
       \/ Request(r)
       \/ ResolveParameters(r)
       \/ AuthorizationRequest(r)
       \/ CodeChallenge(r)
       \/ Redirect(r)
       \/ Callback(r)
       \/ TokenEndpointParameters(r)
       \/ AuthorizationCodeGrant(r)
       \/ Verify(r)
       \/ Write(r)

Spec == Init /\ [][Next]_vars


\* ------------------------------------------- verify.ts: Verify Handler
\* The state of the login handler, which the other handlers leave alone.
loginVars == <<session, rnd, numStores, numConsumed, numExchanges, lastStored,
               storesAtConsume, issued>>

\* openIDVerifyHandlerFactory({ read, write, ...verify }): the handler
\* closes over read, write and the rest object.
VerifyHandlerFactory ==
  /\ options.handler = "verify"
  /\ handler.status = "none"
  /\ handler' = [status |-> "ready",
                 verify |-> [key |-> options.key, options |-> options.options,
                             tokens |-> options.tokens]]
  /\ UNCHANGED <<options, config, inFlight, started, req, loginVars>>

\* The host routes a request to openIDVerifyHandler, which calls read and
\* suspends.
VerifyHandlerRequest(r) ==
  /\ options.handler = "verify"
  /\ handler.status = "ready"
  /\ req[r].pc = "idle"
  /\ \A q \in Reqs : q < r => req[q].pc # "idle"
  /\ Cardinality({q \in Reqs : req[q].pc # "idle"}) < inFlight
  /\ started < MaxRequests
  /\ req' = [req EXCEPT ![r] = [IdleReq EXCEPT !.id = started + 1, !.pc = "verify.read"]]
  /\ started' = started + 1
  /\ UNCHANGED <<options, config, inFlight, handler, loginVars>>


VerifyHandlerReadCached(r) ==
  /\ req[r].pc = "verify.read"
  /\ \/ \E tokenset \in options.read :
          LET cached == IF "cached" \in DOMAIN handler THEN handler.cached ELSE tokenset
          IN /\ req' = [req EXCEPT ![r] =
                          [@ EXCEPT !.pc = "verify.verify", !.read = Some(tokenset),
                                    !.tokenset = Some(cached),
                                    !.calls = Append(@, "read")]]
             /\ handler' = [status |-> "ready", verify |-> handler.verify,
                            cached |-> cached]
     \/ /\ req' = [req EXCEPT ![r] =
                      Throw([@ EXCEPT !.calls = Append(@, "read")],
                            CollaboratorError("ReadError"))]
        /\ handler' = handler
  /\ UNCHANGED <<options, config, inFlight, started, loginVars>>

\* const tokenset = await read.call(this, request, reply): the accessor
\* answers with a token set or throws.
VerifyHandlerRead(r) ==
  /\ req[r].pc = "verify.read"
  /\ \/ \E tokenset \in options.read :
          req' = [req EXCEPT ![r] =
                    [@ EXCEPT !.pc = "verify.verify", !.read = Some(tokenset),
                              !.tokenset = Some(tokenset),
                              !.calls = Append(@, "read")]]
     \/ req' = [req EXCEPT ![r] =
                   Throw([@ EXCEPT !.calls = Append(@, "read")],
                         CollaboratorError("ReadError"))]
  /\ UNCHANGED <<options, config, inFlight, handler, started, loginVars>>

\* const verified = await openIDJWTVerify(tokenset, verify)
VerifyHandlerVerifySwallowing(r) ==
  /\ req[r].pc = "verify.verify"
  /\ LET res == openIDJWTVerify(The(req[r].tokenset), handler.verify)
         rec == [req[r] EXCEPT !.verifiedOn = req[r].tokenset,
                               !.tokenset = Some(res.tokenset),
                               !.attempted = res.attempted,
                               !.calls = Append(@, "verify")]
     IN req' = [req EXCEPT ![r] =
                  IF res.threw THEN [rec EXCEPT !.pc = "verify.write", !.error = res.error]
                  ELSE [rec EXCEPT !.pc = "verify.write", !.verified = Some(res.value)]]
  /\ UNCHANGED <<options, config, inFlight, handler, started, loginVars>>

VerifyHandlerVerify(r) ==
  /\ req[r].pc = "verify.verify"
  /\ LET res == openIDJWTVerify(The(req[r].tokenset), handler.verify)
         rec == [req[r] EXCEPT !.verifiedOn = req[r].tokenset,
                               !.tokenset = Some(res.tokenset),
                               !.attempted = res.attempted,
                               !.calls = Append(@, "verify")]
     IN req' = [req EXCEPT ![r] =
                  IF res.threw THEN Throw(rec, res.error)
                  ELSE [rec EXCEPT !.pc = "verify.write", !.verified = Some(res.value)]]
  /\ UNCHANGED <<options, config, inFlight, handler, started, loginVars>>

\* return await write?.call(this, request, reply, tokenset, verified)
VerifyHandlerWrite(r) ==
  /\ req[r].pc = "verify.write"
  /\ IF options.write = UNDEF
       THEN req' = [req EXCEPT ![r] = Finish(@, "noop")]
       ELSE \E threw \in BOOLEAN :
              LET rec == [req[r] EXCEPT !.sink = Some([tokenset |-> req[r].tokenset,
                                                        verified |-> req[r].verified]),
                                        !.calls = Append(@, "write")]
              IN req' = [req EXCEPT ![r] =
                           IF threw THEN Throw(rec, CollaboratorError("SinkError"))
                           ELSE Finish(rec, "sink")]
  /\ UNCHANGED <<options, config, inFlight, handler, started, loginVars>>

\* Token sets the read accessor may return.
ReadTokenSets ==
  [id_token : {UNDEF, "", "jwt.signed-by.k1", "jwt.tampered"},
   access_token : {UNDEF, "jwt.signed-by.k1", "opaque-at"},
   refresh_token : {UNDEF, "opaque-rt"}]

VerifyKeys == {StaticKey("k1"), KeyFunction("k1"), KeyFunction(UNDEF)}

VerifyTokenLists ==
  {<< >>, <<"id_token">>, <<"id_token", "access_token">>,
   <<"access_token", "id_token">>, <<"refresh_token", "id_token">>}

JWTVerifyOptions ==
  {None,
   Some([issuer |-> "https://test-issuer.example.com", audience |-> "test-client"]),
   Some([issuer |-> "https://test-issuer.example.com", audience |-> "wrong-client"])}

NoConfiguration ==
  [issuer |-> UNDEF, code_challenge_methods_supported |-> None,
   redirect_uris |-> << >>, authorization_endpoint |-> UNDEF]

\* Every Verify Handler configuration, with requests handled one at a time.
InitVerify ==
  /\ \E key \in VerifyKeys, tokens \in VerifyTokenLists, opts \in JWTVerifyOptions,
        write \in {UNDEF, "write"} :
       options = [handler |-> "verify", read |-> ReadTokenSets, write |-> write,
                  key |-> key,
                  options |-> opts, tokens |-> tokens]
  /\ config = NoConfiguration
  /\ inFlight = 1
  /\ session = [k \in SessionKeys |-> None]
  /\ rnd = 0
  /\ started = 0
  /\ req = [r \in Reqs |-> IdleReq]
  /\ numStores = 0
  /\ numConsumed = 0
  /\ numExchanges = 0
  /\ lastStored = None
  /\ storesAtConsume = 0
  /\ issued = << >>
  /\ handler = [status |-> "none"]

NextVerify ==
  \/ VerifyHandlerFactory
  \/ \E r \in Reqs :
       \/ VerifyHandlerRequest(r)
       \/ VerifyHandlerRead(r)
       \/ VerifyHandlerVerify(r)
       \/ VerifyHandlerWrite(r)

SpecVerify == InitVerify /\ [][NextVerify]_vars


\* ----------------------------------------- refresh.ts: Refresh Handler
OpenIDRefreshTokenMissingError ==
  CreateError("FST_OPENID_REFRESH_TOKEN_MISSING", "no refresh_token available", "", "", 400)

\* A JSON value under expires_at: its typeof and, for a number, the number
\* (for a string, the number its digits spell).
JsonValue(type, number) == [type |-> type, number |-> number]

\* Lines 56-59: expiresAt is the value when it is a number, else undefined.
ExpiresAt(oldTokens) ==
  IF oldTokens.expires_at.type = "number"
    THEN Some(oldTokens.expires_at.number)
    ELSE None

\* isTokenExpired(expiresAt), with Date.now() = now in milliseconds.
isTokenExpiredAfter(expiresAt, now) ==
  IF expiresAt = None THEN TRUE ELSE now > The(expiresAt) * 1000

isTokenExpired(expiresAt, now) ==
  IF expiresAt = None THEN TRUE ELSE now >= The(expiresAt) * 1000

\* refreshTokenGrant: the token endpoint answers with a new token set or
\* fails.
refreshTokenGrant(refreshToken, parameters) ==
  {Returned(Some(t)) : t \in GrantTokenSets}
    \cup {Thrown(CollaboratorError("TokenEndpointError"))}

\* openIDRefreshHandlerFactory(config, { tokenEndpoint, verify, read,
\* write }) returns the handler.
RefreshHandlerFactory ==
  /\ options.handler = "refresh"
  /\ handler.status = "none"
  /\ handler' = [status |-> "ready"]
  /\ UNCHANGED <<options, config, inFlight, started, req, loginVars>>

\* The host routes a request to openIDRefreshHandler, which calls read and
\* suspends.
RefreshHandlerRequest(r) ==
  /\ options.handler = "refresh"
  /\ handler.status = "ready"
  /\ req[r].pc = "idle"
  /\ \A q \in Reqs : q < r => req[q].pc # "idle"
  /\ Cardinality({q \in Reqs : req[q].pc # "idle"}) < inFlight
  /\ started < MaxRequests
  /\ req' = [req EXCEPT ![r] = [IdleReq EXCEPT !.id = started + 1, !.pc = "refresh.read"]]
  /\ started' = started + 1
  /\ UNCHANGED <<options, config, inFlight, handler, loginVars>>

\* Lines 53-73: read answers; the token set is not due and the handler
\* returns, or it is due and the handler throws for want of a refresh_token
\* or goes on to resolve the token-endpoint parameters.
RefreshHandlerReadTokenFirst(r, now) ==
  /\ req[r].pc = "refresh.read"
  /\ \/ \E oldTokens \in options.read :
          LET expiresAt == ExpiresAt(oldTokens)
              due == isTokenExpired(expiresAt, now)
              rec == [req[r] EXCEPT !.read = Some(oldTokens), !.now = now,
                                    !.expired = Some(due),
                                    !.calls = Append(@, "read")]
          IN req' = [req EXCEPT ![r] =
                       IF oldTokens.refresh_token = UNDEF
                         THEN Throw(rec, OpenIDRefreshTokenMissingError)
                       ELSE IF ~due THEN Finish(rec, "noop")
                       ELSE [rec EXCEPT !.pc = "refresh.tokenParameters"]]
     \/ req' = [req EXCEPT ![r] =
                   Throw([@ EXCEPT !.calls = Append(@, "read")],
                         CollaboratorError("ReadError"))]
  /\ UNCHANGED <<options, config, inFlight, handler, started, loginVars>>

RefreshHandlerReadNoTokenCheck(r, now) ==
  /\ req[r].pc = "refresh.read"
  /\ \/ \E oldTokens \in options.read :
          LET expiresAt == ExpiresAt(oldTokens)
              due == isTokenExpired(expiresAt, now)
              rec == [req[r] EXCEPT !.read = Some(oldTokens), !.now = now,
                                    !.expired = Some(due),
                                    !.calls = Append(@, "read")]
          IN req' = [req EXCEPT ![r] =
                       IF ~due THEN Finish(rec, "noop")
                       ELSE [rec EXCEPT !.pc = "refresh.tokenParameters"]]
     \/ req' = [req EXCEPT ![r] =
                   Throw([@ EXCEPT !.calls = Append(@, "read")],
                         CollaboratorError("ReadError"))]
  /\ UNCHANGED <<options, config, inFlight, handler, started, loginVars>>

RefreshHandlerReadResolvingFirst(r, now) ==
  /\ req[r].pc = "refresh.read"
  /\ \/ \E oldTokens \in options.read :
          LET expiresAt == ExpiresAt(oldTokens)
              due == isTokenExpired(expiresAt, now)
              rec == [req[r] EXCEPT !.read = Some(oldTokens), !.now = now,
                                    !.expired = Some(due),
                                    !.calls = Append(@, "read")]
          IN req' = [req EXCEPT ![r] =
                       IF ~due THEN Finish(rec, "noop")
                       ELSE IF oldTokens.refresh_token = UNDEF
                         THEN Throw([rec EXCEPT !.calls = Append(@, "parameters")],
                                    OpenIDRefreshTokenMissingError)
                       ELSE [rec EXCEPT !.pc = "refresh.tokenParameters"]]
     \/ req' = [req EXCEPT ![r] =
                   Throw([@ EXCEPT !.calls = Append(@, "read")],
                         CollaboratorError("ReadError"))]
  /\ UNCHANGED <<options, config, inFlight, handler, started, loginVars>>

RefreshHandlerRead(r, now) ==
  /\ req[r].pc = "refresh.read"
  /\ \/ \E oldTokens \in options.read :
          LET expiresAt == ExpiresAt(oldTokens)
              due == isTokenExpired(expiresAt, now)
              rec == [req[r] EXCEPT !.read = Some(oldTokens), !.now = now,
                                    !.expired = Some(due),
                                    !.calls = Append(@, "read")]
          IN req' = [req EXCEPT ![r] =
                       IF ~due THEN Finish(rec, "noop")
                       ELSE IF oldTokens.refresh_token = UNDEF
                         THEN Throw(rec, OpenIDRefreshTokenMissingError)
                       ELSE [rec EXCEPT !.pc = "refresh.tokenParameters"]]
     \/ req' = [req EXCEPT ![r] =
                   Throw([@ EXCEPT !.calls = Append(@, "read")],
                         CollaboratorError("ReadError"))]
  /\ UNCHANGED <<options, config, inFlight, handler, started, loginVars>>

\* await resolveParameters(tokenEndpoint?.parameters, request, reply)
RefreshHandlerTokenParameters(r) ==
  /\ req[r].pc = "refresh.tokenParameters"
  /\ \E res \in resolveParameters(options.tokenEndpoint) :
       LET rec == [req[r] EXCEPT !.calls = Append(@, "parameters")]
       IN req' = [req EXCEPT ![r] =
                    IF res.threw THEN Throw(rec, res.error)
                    ELSE [rec EXCEPT !.pc = "refresh.grant", !.tokenParams = res.value]]
  /\ UNCHANGED <<options, config, inFlight, handler, started, loginVars>>

\* const newTokenset = await refreshTokenGrant(config, refreshToken,
\* parameters, tokenEndpoint?.options)
RefreshHandlerGrant(r) ==
  /\ req[r].pc = "refresh.grant"
  /\ LET refreshToken == The(req[r].read).refresh_token
         rec == [req[r] EXCEPT !.grant = Some([refreshToken |-> refreshToken,
                                               parameters |-> req[r].tokenParams]),
                               !.calls = Append(@, "grant")]
     IN \E res \in refreshTokenGrant(refreshToken, req[r].tokenParams) :
          req' = [req EXCEPT ![r] =
                    IF res.threw THEN Throw(rec, res.error)
                    ELSE [rec EXCEPT !.pc = "refresh.verify", !.tokenset = res.value]]
  /\ UNCHANGED <<options, config, inFlight, handler, started, loginVars>>

\* const verified = verify !== undefined
\*   ? await openIDJWTVerify(newTokenset, verify) : undefined
RefreshHandlerVerifyOldTokens(r) ==
  /\ req[r].pc = "refresh.verify"
  /\ req' = [req EXCEPT ![r] =
               IF options.verify # None
                 THEN LET res == openIDJWTVerify(The(req[r].read), The(options.verify))
                          rec == [req[r] EXCEPT !.verifiedOn = req[r].read,
                                                !.attempted = res.attempted,
                                                !.calls = Append(@, "verify")]
                      IN IF res.threw THEN Throw(rec, res.error)
                         ELSE [rec EXCEPT !.pc = "refresh.write", !.verified = Some(res.value)]
                 ELSE [@ EXCEPT !.pc = "refresh.write"]]
  /\ UNCHANGED <<options, config, inFlight, handler, started, loginVars>>

RefreshHandlerVerify(r) ==
  /\ req[r].pc = "refresh.verify"
  /\ req' = [req EXCEPT ![r] =
               IF options.verify # None
                 THEN LET res == openIDJWTVerify(The(req[r].tokenset), The(options.verify))
                          rec == [req[r] EXCEPT !.verifiedOn = req[r].tokenset,
                                                !.attempted = res.attempted,
                                                !.calls = Append(@, "verify")]
                      IN IF res.threw THEN Throw(rec, res.error)
                         ELSE [rec EXCEPT !.pc = "refresh.write", !.verified = Some(res.value)]
                 ELSE [@ EXCEPT !.pc = "refresh.write"]]
  /\ UNCHANGED <<options, config, inFlight, handler, started, loginVars>>

\* return await write?.call(this, request, reply, newTokenset, verified)
RefreshHandlerWrite(r) ==
  /\ req[r].pc = "refresh.write"
  /\ IF options.write = UNDEF
       THEN req' = [req EXCEPT ![r] = Finish(@, "noop")]
       ELSE \E threw \in BOOLEAN :
              LET rec == [req[r] EXCEPT !.sink = Some([tokenset |-> req[r].tokenset,
                                                        verified |-> req[r].verified]),
                                        !.calls = Append(@, "write")]
              IN req' = [req EXCEPT ![r] =
                           IF threw THEN Throw(rec, CollaboratorError("SinkError"))
                           ELSE Finish(rec, "sink")]
  /\ UNCHANGED <<options, config, inFlight, handler, started, loginVars>>

\* expires_at values, in seconds: absent, a string of digits, numbers.
ExpiresAtValues ==
  {JsonValue("undefined", 0), JsonValue("string", 2)}
    \cup {JsonValue("number", n) : n \in 0..2}

\* Token sets the read accessor of a Refresh Handler may return.
OldTokenSets ==
  [expires_at : ExpiresAtValues, refresh_token : {UNDEF, "opaque-rt"},
   id_token : {"jwt.signed-by.k1"}, access_token : {"opaque-at"}]

\* Readings of Date.now(), in milliseconds: around each expiry instant,
\* and the small values that equal an expires_at taken as milliseconds.
Times == {0, 1, 2, 3, 999, 1000, 1001, 1999, 2000, 2001}

\* Every Refresh Handler configuration, with requests handled one at a
\* time.
InitRefresh ==
  /\ \E tokenEndpoint \in {Undefined, Function(TokenParameters, "TokenParametersError")},
        verify \in VerifyOptions, write \in {UNDEF, "write"} :
       options = [handler |-> "refresh", read |-> OldTokenSets,
                  tokenEndpoint |-> tokenEndpoint,
                  verify |-> verify, write |-> write]
  /\ config = NoConfiguration
  /\ inFlight = 1
  /\ session = [k \in SessionKeys |-> None]
  /\ rnd = 0
  /\ started = 0
  /\ req = [r \in Reqs |-> IdleReq]
  /\ numStores = 0
  /\ numConsumed = 0
  /\ numExchanges = 0
  /\ lastStored = None
  /\ storesAtConsume = 0
  /\ issued = << >>
  /\ handler = [status |-> "none"]

NextRefresh ==
  \/ RefreshHandlerFactory
  \/ \E r \in Reqs :
       \/ RefreshHandlerRequest(r)
       \/ \E now \in Times : RefreshHandlerRead(r, now)
       \/ RefreshHandlerTokenParameters(r)
       \/ RefreshHandlerGrant(r)
       \/ RefreshHandlerVerify(r)
       \/ RefreshHandlerWrite(r)

SpecRefresh == InitRefresh /\ [][NextRefresh]_vars

\* ------------------------------------------- logout.ts: Logout Handler
EndSessionKeys == {"post_logout_redirect_uri", "id_token_hint", "state"}
NoEndSessionParameters == [k \in EndSessionKeys |-> UNDEF]

\* The strings of the model that new URL() parses, with the pathname and
\* the search of the parsed URL: dot segments are resolved and the
\* fragment is in neither.
AbsoluteURLs ==
  {[href |-> "http://localhost:8080/logout?state=some-state",
    pathname |-> "/logout", search |-> "?state=some-state"],
   [href |-> "http://localhost:8080/logged-out",
    pathname |-> "/logged-out", search |-> ""],
   [href |-> "http://localhost:8080/a/../logout#top",
    pathname |-> "/logout", search |-> ""]}

InvalidURL == [code |-> "ERR_INVALID_URL", message |-> "Invalid URL", statusCode |-> 0]

\* new URL(input): throws a TypeError for a string that is not an absolute
\* URL.
URL(input) ==
  IF \E u \in AbsoluteURLs : u.href = input
    THEN Returned(Some(CHOOSE u \in AbsoluteURLs : u.href = input))
    ELSE Thrown(InvalidURL)

\* A JavaScript string in a condition: the empty string is falsy.
Truthy(x) == x # UNDEF /\ x # ""

\* buildEndSessionUrl(config, parameters): the end-session endpoint with
\* the parameters as its query.
buildEndSessionUrl(cfg, parameters) ==
  [endpoint |-> cfg.end_session_endpoint, searchParams |-> parameters]

\* reply.code(500); reply.send({ error: 'ERR_INVALID_URL', message:
\* String(err) })
SendInvalidUrl(rec, err) ==
  [rec EXCEPT !.pc = "idle", !.outcome = "send", !.status = 500,
              !.body = Some([error |-> "ERR_INVALID_URL", message |-> err.code])]

\* openIDLogoutHandlerFactory(config, { parameters, verify, read, write })
\* returns the handler.
LogoutHandlerFactory ==
  /\ options.handler = "logout"
  /\ handler.status = "none"
  /\ handler' = [status |-> "ready"]
  /\ UNCHANGED <<options, config, inFlight, started, req, loginVars>>

\* The host routes a request to openIDLogoutHandler, which calls read and
\* suspends.
LogoutHandlerRequest(r) ==
  /\ options.handler = "logout"
  /\ handler.status = "ready"
  /\ req[r].pc = "idle"
  /\ \A q \in Reqs : q < r => req[q].pc # "idle"
  /\ Cardinality({q \in Reqs : req[q].pc # "idle"}) < inFlight
  /\ started < MaxRequests
  /\ \E url \in options.urls :
       req' = [req EXCEPT ![r] = [IdleReq EXCEPT !.id = started + 1,
                                                 !.pc = "logout.read", !.url = url]]
  /\ started' = started + 1
  /\ UNCHANGED <<options, config, inFlight, handler, loginVars>>

\* const tokenset = await read.call(this, request, reply)
LogoutHandlerRead(r) ==
  /\ req[r].pc = "logout.read"
  /\ \/ \E tokenset \in options.read :
          req' = [req EXCEPT ![r] =
                    [@ EXCEPT !.pc = "logout.parameters", !.read = Some(tokenset),
                              !.calls = Append(@, "read")]]
     \/ req' = [req EXCEPT ![r] =
                   Throw([@ EXCEPT !.calls = Append(@, "read")],
                         CollaboratorError("ReadError"))]
  /\ UNCHANGED <<options, config, inFlight, handler, started, loginVars>>

\* const params = await resolveParameters(parameters, request, reply)
LogoutHandlerParameters(r) ==
  /\ req[r].pc = "logout.parameters"
  /\ \E res \in resolveParameters(options.parameters) :
       LET rec == [req[r] EXCEPT !.calls = Append(@, "parameters")]
       IN req' = [req EXCEPT ![r] =
                    IF res.threw THEN Throw(rec, res.error)
                    ELSE [rec EXCEPT !.pc = "logout.select", !.params = res.value]]
  /\ UNCHANGED <<options, config, inFlight, handler, started, loginVars>>

\* Lines 54-60: the end-session parameters are the resolved ones, with
\* id_token_hint set from a truthy tokenset.id_token; the reply redirects
\* to the end-session URL.
EndSessionParametersHintAlways(params, tokenset) ==
  [Spread(NoEndSessionParameters,
          IF params = None THEN NoEndSessionParameters ELSE The(params))
     EXCEPT !["id_token_hint"] = tokenset.id_token]

EndSessionParametersCallerWins(params, tokenset) ==
  LET endSessionParams ==
        Spread(NoEndSessionParameters,
               IF params = None THEN NoEndSessionParameters ELSE The(params))
  IN IF Truthy(tokenset.id_token) /\ endSessionParams["id_token_hint"] = UNDEF
       THEN [endSessionParams EXCEPT !["id_token_hint"] = tokenset.id_token]
       ELSE endSessionParams

EndSessionParameters(params, tokenset) ==
  LET endSessionParams ==
        Spread(NoEndSessionParameters,
               IF params = None THEN NoEndSessionParameters ELSE The(params))
  IN IF Truthy(tokenset.id_token)
       THEN [endSessionParams EXCEPT !["id_token_hint"] = tokenset.id_token]
       ELSE endSessionParams

EndSessionRedirect(rec) ==
  LET endSessionUrl ==
        buildEndSessionUrl(config, EndSessionParameters(rec.params, The(rec.read)))
  IN [rec EXCEPT !.pc = "idle", !.phase = "initial", !.outcome = "redirect",
                 !.status = 302, !.endSessionUrl = Some(endSessionUrl)]

\* Lines 36-40 and 46-60, up to the next await: with a truthy
\* post_logout_redirect_uri the URI is parsed, which may throw into the
\* catch clause, and a request for its pathname and search is the
\* callback; every other request is redirected to the end-session URL.
LogoutHandlerSelectAnyPath(r) ==
  /\ req[r].pc = "logout.select"
  /\ LET uri == OptGet(req[r].params, "post_logout_redirect_uri")
         url == URL(uri)
     IN req' = [req EXCEPT ![r] =
                  IF Truthy(uri)
                    THEN IF url.threw THEN SendInvalidUrl(@, url.error)
                         ELSE [@ EXCEPT !.pc = "logout.verify", !.phase = "callback",
                                        !.callbackPath =
                                          Some(The(url.value).pathname
                                                 \o The(url.value).search)]
                    ELSE EndSessionRedirect(@)]
  /\ UNCHANGED <<options, config, inFlight, handler, started, loginVars>>

LogoutHandlerSelectNoParse(r) ==
  /\ req[r].pc = "logout.select"
  /\ LET uri == OptGet(req[r].params, "post_logout_redirect_uri")
         url == URL(uri)
     IN req' = [req EXCEPT ![r] =
                  IF Truthy(uri) /\ ~url.threw
                    THEN LET callbackPath == The(url.value).pathname
                                               \o The(url.value).search
                         IN IF req[r].url = callbackPath
                              THEN [@ EXCEPT !.pc = "logout.verify", !.phase = "callback",
                                             !.callbackPath = Some(callbackPath)]
                              ELSE EndSessionRedirect(
                                     [@ EXCEPT !.callbackPath = Some(callbackPath)])
                    ELSE EndSessionRedirect(@)]
  /\ UNCHANGED <<options, config, inFlight, handler, started, loginVars>>

LogoutHandlerSelectAfterRedirect(r) ==
  /\ req[r].pc = "logout.select"
  /\ LET uri == OptGet(req[r].params, "post_logout_redirect_uri")
         url == URL(uri)
     IN req' = [req EXCEPT ![r] =
                  IF Truthy(uri)
                    THEN IF url.threw THEN SendInvalidUrl(@, url.error)
                         ELSE LET callbackPath == The(url.value).pathname
                                                    \o The(url.value).search
                              IN IF req[r].url = callbackPath /\ req[r].id > 1
                                   THEN [@ EXCEPT !.pc = "logout.verify", !.phase = "callback",
                                                  !.callbackPath = Some(callbackPath)]
                                   ELSE EndSessionRedirect(
                                          [@ EXCEPT !.callbackPath = Some(callbackPath)])
                    ELSE EndSessionRedirect(@)]
  /\ UNCHANGED <<options, config, inFlight, handler, started, loginVars>>

LogoutHandlerSelect(r) ==
  /\ req[r].pc = "logout.select"
  /\ LET uri == OptGet(req[r].params, "post_logout_redirect_uri")
         url == URL(uri)
     IN req' = [req EXCEPT ![r] =
                  IF Truthy(uri)
                    THEN IF url.threw THEN SendInvalidUrl(@, url.error)
                         ELSE LET callbackPath == The(url.value).pathname
                                                    \o The(url.value).search
                              IN IF req[r].url = callbackPath
                                   THEN [@ EXCEPT !.pc = "logout.verify", !.phase = "callback",
                                                  !.callbackPath = Some(callbackPath)]
                                   ELSE EndSessionRedirect(
                                          [@ EXCEPT !.callbackPath = Some(callbackPath)])
                    ELSE EndSessionRedirect(@)]
  /\ UNCHANGED <<options, config, inFlight, handler, started, loginVars>>

\* const verified = verify ? await openIDJWTVerify(tokenset, verify) :
\* undefined, inside the try block: a rejection is caught by the catch
\* clause of lines 46-50.
LogoutHandlerVerify(r) ==
  /\ req[r].pc = "logout.verify"
  /\ req' = [req EXCEPT ![r] =
               IF options.verify # None
                 THEN LET res == openIDJWTVerify(The(req[r].read), The(options.verify))
                          rec == [req[r] EXCEPT !.verifiedOn = req[r].read,
                                                !.attempted = res.attempted,
                                                !.calls = Append(@, "verify")]
                      IN IF res.threw THEN SendInvalidUrl(rec, res.error)
                         ELSE [rec EXCEPT !.pc = "logout.write", !.verified = Some(res.value)]
                 ELSE [@ EXCEPT !.pc = "logout.write"]]
  /\ UNCHANGED <<options, config, inFlight, handler, started, loginVars>>

\* return await write?.call(this, request, reply, tokenset, verified),
\* inside the try block as well.
LogoutHandlerWrite(r) ==
  /\ req[r].pc = "logout.write"
  /\ IF options.write = UNDEF
       THEN req' = [req EXCEPT ![r] = Finish(@, "noop")]
       ELSE \E threw \in BOOLEAN :
              LET rec == [req[r] EXCEPT !.sink = Some([tokenset |-> req[r].read,
                                                        verified |-> req[r].verified]),
                                        !.calls = Append(@, "write")]
              IN req' = [req EXCEPT ![r] =
                           IF threw THEN SendInvalidUrl(rec, CollaboratorError("SinkError"))
                           ELSE Finish(rec, "sink")]
  /\ UNCHANGED <<options, config, inFlight, handler, started, loginVars>>

\* Token sets the read accessor of a Logout Handler may return.
LogoutTokenSets ==
  [id_token : {UNDEF, "", "jwt.signed-by.k1", "jwt.tampered"},
   access_token : {"opaque-at"}, refresh_token : {UNDEF}]

\* End-session parameters a caller may configure.
LogoutParameters ==
  {[NoEndSessionParameters EXCEPT
      !["post_logout_redirect_uri"] = "http://localhost:8080/logout?state=some-state"],
   [NoEndSessionParameters EXCEPT
      !["post_logout_redirect_uri"] = "http://localhost:8080/a/../logout#top",
      !["state"] = "s1"],
   [NoEndSessionParameters EXCEPT
      !["post_logout_redirect_uri"] = "http://localhost:8080/logged-out",
      !["id_token_hint"] = "caller-hint"],
   [NoEndSessionParameters EXCEPT !["post_logout_redirect_uri"] = "/relative/path"],
   [NoEndSessionParameters EXCEPT !["post_logout_redirect_uri"] = "", !["state"] = "s1"],
   [NoEndSessionParameters EXCEPT !["id_token_hint"] = "caller-hint"]}

\* request.url of the requests routed to the handler.
LogoutUrls == {"/logout", "/logout?state=some-state", "/logged-out"}

LogoutConfiguration ==
  [issuer |-> "http://localhost:3001",
   end_session_endpoint |-> "http://localhost:3001/session/end"]

\* Every Logout Handler configuration, with requests handled one at a
\* time.
InitLogout ==
  /\ \E parameters \in {Undefined, Function(LogoutParameters, "ParametersError")}
                          \cup {Object(o) : o \in LogoutParameters},
        verify \in VerifyOptions, write \in {UNDEF, "write"} :
       options = [handler |-> "logout", read |-> LogoutTokenSets,
                  urls |-> LogoutUrls, parameters |-> parameters,
                  verify |-> verify, write |-> write]
  /\ config = LogoutConfiguration
  /\ inFlight = 1
  /\ session = [k \in SessionKeys |-> None]
  /\ rnd = 0
  /\ started = 0
  /\ req = [r \in Reqs |-> IdleReq]
  /\ numStores = 0
  /\ numConsumed = 0
  /\ numExchanges = 0
  /\ lastStored = None
  /\ storesAtConsume = 0
  /\ issued = << >>
  /\ handler = [status |-> "none"]

NextLogout ==
  \/ LogoutHandlerFactory
  \/ \E r \in Reqs :
       \/ LogoutHandlerRequest(r)
       \/ LogoutHandlerRead(r)
       \/ LogoutHandlerParameters(r)
       \/ LogoutHandlerSelect(r)
       \/ LogoutHandlerVerify(r)
       \/ LogoutHandlerWrite(r)

SpecLogout == InitLogout /\ [][NextLogout]_vars

\* ------------------------------------------ utils.ts: Parameter Resolver
\* A caller calls resolveParameters(parameters, request, reply) for a
\* request.
ResolverRequest(r) ==
  /\ options.handler = "resolver"
  /\ req[r].pc = "idle"
  /\ \A q \in Reqs : q < r => req[q].pc # "idle"
  /\ Cardinality({q \in Reqs : req[q].pc # "idle"}) < inFlight
  /\ started < MaxRequests
  /\ req' = [req EXCEPT ![r] = [IdleReq EXCEPT !.id = started + 1, !.pc = "resolver.call"]]
  /\ started' = started + 1
  /\ UNCHANGED <<options, config, inFlight, handler, loginVars>>

\* The call parameters(request, reply), with the request and the reply it
\* is given.
ParametersCall(id) ==
  "parameters(request" \o ToString(id) \o ", reply" \o ToString(id) \o ")"

\* The body runs: typeof parameters === 'function' ? parameters(request,
\* reply) : parameters.  A function is called here; the promise of the
\* async function is pending.
ResolverCall(r) ==
  /\ req[r].pc = "resolver.call"
  /\ req' = [req EXCEPT ![r] =
               IF options.parameters.kind = "function"
                 THEN [@ EXCEPT !.pc = "resolver.await",
                                !.calls = Append(@, ParametersCall(req[r].id))]
                 ELSE [@ EXCEPT !.pc = "resolver.await"]]
  /\ UNCHANGED <<options, config, inFlight, handler, started, loginVars>>

\* The promise settles with the value or with the answer of the function,
\* given at once or through a promise, or rejects with what the function
\* threw or rejected with.
ResolverSettle(r) ==
  /\ req[r].pc = "resolver.await"
  /\ \E res \in resolveParameters(options.parameters) :
       req' = [req EXCEPT ![r] =
                 IF res.threw THEN Throw(@, res.error)
                 ELSE Finish([@ EXCEPT !.params = res.value], "returned")]
  /\ UNCHANGED <<options, config, inFlight, handler, started, loginVars>>

\* Every kind of `parameters` a handler passes on, with two calls in
\* flight at most.
InitResolver ==
  /\ \E parameters \in {Undefined, Function(CallerParameters, "ParametersError"),
                          Function(LogoutParameters, "ParametersError"),
                          Function(TokenParameters, "TokenParametersError")}
                          \cup {Object(o) : o \in CallerParameters \cup LogoutParameters} :
       options = [handler |-> "resolver", parameters |-> parameters]
  /\ config = NoConfiguration
  /\ inFlight = 2
  /\ session = [k \in SessionKeys |-> None]
  /\ rnd = 0
  /\ started = 0
  /\ req = [r \in Reqs |-> IdleReq]
  /\ numStores = 0
  /\ numConsumed = 0
  /\ numExchanges = 0
  /\ lastStored = None
  /\ storesAtConsume = 0
  /\ issued = << >>
  /\ handler = [status |-> "none"]

NextResolver ==
  \E r \in Reqs :
    \/ ResolverRequest(r)
    \/ ResolverCall(r)
    \/ ResolverSettle(r)

SpecResolver == InitResolver /\ [][NextResolver]_vars

\* ------------------------------------------------- the handlers together
\* The plugin offers the handler factories side by side; a host builds
\* each handler from options of its own and the handlers share nothing, so
\* a behaviour is the life of one handler.
InitAll == Init \/ InitVerify \/ InitRefresh \/ InitLogout

NextAll == Next \/ NextVerify \/ NextRefresh \/ NextLogout

SpecAll == InitAll /\ [][NextAll]_vars

\* Handlers that the host lets run for two requests at the same time: a
\* Verify, a Refresh and a Logout Handler, and the login handlers of Init
\* with two requests in flight.
ConcurrentOptions ==
  {[handler |-> "verify",
    read |-> {t \in ReadTokenSets : t.access_token = "opaque-at" /\ t.refresh_token = UNDEF},
    write |-> "write", key |-> StaticKey("k1"), options |-> None,
    tokens |-> <<"id_token">>],
   [handler |-> "refresh",
    read |-> {t \in OldTokenSets : t.expires_at \in {JsonValue("undefined", 0),
                                                       JsonValue("number", 1)}},
    tokenEndpoint |-> Undefined,
    verify |-> Some([key |-> StaticKey("k1"), options |-> None, tokens |-> <<"id_token">>]),
    write |-> "write"],
   [handler |-> "logout",
    read |-> {t \in LogoutTokenSets : t.id_token \in {UNDEF, "jwt.signed-by.k1"}},
    urls |-> LogoutUrls, parameters |-> Function(LogoutParameters, "ParametersError"),
    verify |-> Some([key |-> StaticKey("k1"), options |-> None, tokens |-> <<"id_token">>]),
    write |-> "write"]}

InitConcurrent ==
  \/ Init /\ inFlight = Cardinality(Reqs)
  \/ /\ options \in ConcurrentOptions
     /\ config = IF options.handler = "logout" THEN LogoutConfiguration
                                                ELSE NoConfiguration
     /\ inFlight = Cardinality(Reqs)
     /\ session = [k \in SessionKeys |-> None]
     /\ rnd = 0
     /\ started = 0
     /\ req = [r \in Reqs |-> IdleReq]
     /\ numStores = 0
     /\ numConsumed = 0
     /\ numExchanges = 0
     /\ lastStored = None
     /\ storesAtConsume = 0
     /\ issued = << >>
     /\ handler = [status |-> "none"]

SpecConcurrent == InitConcurrent /\ [][NextAll]_vars


\* ------------------------------------------------------------- progress
\* The continuation of request r after the collaborator it awaits has
\* answered: every step of a handler but the arrival of the request.
Step(r) ==
  \/ ResolveParameters(r)
  \/ AuthorizationRequest(r)
  \/ CodeChallenge(r)
  \/ Redirect(r)
  \/ Callback(r)
  \/ TokenEndpointParameters(r)
  \/ AuthorizationCodeGrant(r)
  \/ Verify(r)
  \/ Write(r)
  \/ VerifyHandlerRead(r)
  \/ VerifyHandlerVerify(r)
  \/ VerifyHandlerWrite(r)
  \/ \E now \in Times : RefreshHandlerRead(r, now)
  \/ RefreshHandlerTokenParameters(r)
  \/ RefreshHandlerGrant(r)
  \/ RefreshHandlerVerify(r)
  \/ RefreshHandlerWrite(r)
  \/ LogoutHandlerRead(r)
  \/ LogoutHandlerParameters(r)
  \/ LogoutHandlerSelect(r)
  \/ LogoutHandlerVerify(r)
  \/ LogoutHandlerWrite(r)

\* Every awaited collaborator call returns or throws, and the event loop
\* then runs the continuation of the handler.
Fairness == \A r \in Reqs : WF_vars(Step(r))

\* One handler of each kind per choice of sink and verification, with
\* parameter functions and PKCE.
InitLive ==
  \/ /\ Init
     /\ inFlight = 1
     /\ options.usePKCE = "S256"
     /\ options.sessionKey = UNDEF
     /\ options.parameters.kind = "function"
     /\ options.tokenEndpoint.kind = "function"
     /\ session["oidc:localhost"] = None
  \/ /\ InitVerify
     /\ options.key = StaticKey("k1")
     /\ options.tokens = <<"id_token">>
     /\ options.options = None
  \/ /\ InitRefresh
     /\ options.tokenEndpoint.kind = "function"
  \/ /\ InitLogout
     /\ options.parameters.kind = "function"

SpecLive == InitLive /\ [][NextAll]_vars /\ Fairness


\* ----------------------------------------------------------- properties
HasChecks(entry) == entry # None /\ Keys(The(entry)) # {}

\* C1: a callback request that loaded non-empty Authorization Checks has
\* cleared the session entry in the same step, before the token exchange is
\* invoked: from the load on - while the token-endpoint parameters and the
\* exchange are pending, and after the exchange, the verification or the
\* sink has succeeded or failed - the session no longer holds the loaded
\* checks, and no exchange is invoked by a request that has not cleared.
C1_ClearedBeforeExchange ==
  \A r \in Reqs :
    /\ (req[r].phase = "callback" /\ HasChecks(req[r].loaded)) =>
         /\ req[r].cleared
         /\ session[handler.sessionKey] # req[r].loaded
    /\ (req[r].pc = "grant" \/ req[r].grant # None) =>
         /\ req[r].cleared
         /\ session[handler.sessionKey] # req[r].loaded

\* A callback whose exchange failed, with the session entry cleared.
C1_Witness ==
  \E r \in Reqs :
    /\ req[r].grant # None
    /\ req[r].outcome = "error"
    /\ req[r].error.code = "TokenEndpointError"
    /\ HasChecks(req[r].loaded)
    /\ session[handler.sessionKey] = None

\* C2: stored Authorization Checks serve at most one token exchange: there
\* are never more exchanges than consumed entries nor more consumed entries
\* than redirect stores, and a callback that loads the session after a
\* consumption with no redirect store in between fails with
\* FST_SESSION_VALUE and invokes no exchange.
C2_OneExchangePerStore ==
  /\ numExchanges <= numConsumed
  /\ numConsumed <= numStores
  /\ \A r \in Reqs :
       (req[r].got /\ req[r].replay) =>
         /\ req[r].pc = "idle"
         /\ req[r].outcome = "error"
         /\ req[r].error.code = "FST_SESSION_VALUE"
         /\ req[r].grant = None

\* A replayed callback: the checks were consumed, no redirect followed.
C2_Witness ==
  \E r \in Reqs :
    /\ req[r].got /\ req[r].replay
    /\ req[r].query.code # UNDEF
    /\ req[r].error.code = "FST_SESSION_VALUE"
    /\ numExchanges >= 1

C3_State ==
  \A r \in Reqs :
    (req[r].got /\ (req[r].loaded = None \/ Keys(The(req[r].loaded)) = {})) =>
      /\ req[r].pc = "idle"
      /\ req[r].outcome = "error"
      /\ req[r].error.code = "FST_SESSION_VALUE"
      /\ req[r].error.statusCode = 500
      /\ req[r].error.message =
           "did not find expected authorization request details in req.session[\""
             \o handler.sessionKey \o "\"]"
      /\ req[r].grant = None
      /\ req[r].verifiedOn = None
      /\ req[r].sink = None
      /\ req[r].stored = None
      /\ ~req[r].cleared

C3_Step ==
  \A r \in Reqs :
    (req[r].pc = "selectPhase" /\ req'[r].error.code = "FST_SESSION_VALUE") =>
      session' = session

\* C3: a callback request that finds the session entry undefined or an
\* object without keys ends with SessionValueError (FST_SESSION_VALUE,
\* status 500, the session key in the message), with no token exchange, no
\* verification and no sink call, and the step that throws leaves the
\* session as it was.
C3_MissingChecksFail == []C3_State /\ [][C3_Step]_vars

\* A callback that found an object without keys under the session key.
C3_Witness ==
  \E r \in Reqs :
    /\ req[r].got
    /\ req[r].loaded = Some(EmptyChecks)
    /\ req[r].error.code = "FST_SESSION_VALUE"
    /\ session[handler.sessionKey] = Some(EmptyChecks)

\* C4: every token exchange is called with expectedState, expectedNonce and
\* pkceCodeVerifier equal to the state, nonce and pkceCodeVerifier the same
\* request loaded from the session, which are the checks the latest redirect
\* stored, and with the token-endpoint parameters resolved for the request.
C4_ExchangeUsesLoadedChecks ==
  \A r \in Reqs :
    req[r].grant # None =>
      LET g == The(req[r].grant) IN
      /\ HasChecks(req[r].loaded)
      /\ g.checks.expectedState = The(req[r].loaded)["state"]
      /\ g.checks.expectedNonce = The(req[r].loaded)["nonce"]
      /\ g.checks.pkceCodeVerifier = The(req[r].loaded)["pkceCodeVerifier"]
      /\ req[r].loaded = req[r].latestAtLoad
      /\ IF options.tokenEndpoint.kind = "undefined"
           THEN g.parameters = None
           ELSE g.parameters # None /\ The(g.parameters) \in options.tokenEndpoint.returns

\* An exchange with a PKCE verifier and resolved token-endpoint parameters.
C4_Witness ==
  \E r \in Reqs :
    /\ req[r].grant # None
    /\ The(req[r].grant).checks.pkceCodeVerifier # UNDEF
    /\ The(req[r].grant).checks.expectedState # The(req[r].grant).checks.expectedNonce
    /\ The(req[r].grant).parameters # None
    /\ req[r].tokenset # None


NonEmpty(v) == v # UNDEF /\ v # ""

C5_State ==
  \A r \in Reqs :
    /\ (req[r].pc = "redirect" \/ req[r].outcome = "redirect") =>
         /\ req[r].stored # None
         /\ NonEmpty(The(req[r].stored)["state"])
         /\ NonEmpty(The(req[r].stored)["nonce"])
         /\ handler.usePKCE # "false" => NonEmpty(The(req[r].stored)["pkceCodeVerifier"])
    /\ (req[r].phase = "request" /\ req[r].pc = "idle") =>
         /\ req[r].outcome = "redirect"
         /\ The(req[r].authUrl).endpoint = config.authorization_endpoint

C5_Step ==
  \A r \in Reqs :
    /\ (req[r].pc # "redirect" /\ req'[r].pc = "redirect") =>
         /\ req'[r].stored # None
         /\ session'[handler.sessionKey] = req'[r].stored
    /\ (req[r].outcome # "redirect" /\ req'[r].outcome = "redirect") =>
         /\ req[r].pc = "redirect"
         /\ req[r].stored # None

\* C5: a login request in the authorization-request phase stores an object
\* with non-empty state and nonce (and a non-empty pkceCodeVerifier when
\* PKCE is enabled) under the session key, and the store has happened in
\* every state from which the redirect to the authorization endpoint is sent.
C5_StoreBeforeRedirect == []C5_State /\ [][C5_Step]_vars

\* A redirect that was sent with a PKCE verifier stored under the session key.
C5_Witness ==
  \E r \in Reqs :
    /\ req[r].outcome = "redirect"
    /\ req[r].query.code = UNDEF /\ req[r].query.error = UNDEF
    /\ session[handler.sessionKey] = req[r].stored
    /\ NonEmpty(The(req[r].stored)["pkceCodeVerifier"])

\* The request has gone through the phase selection of line 132.
PhaseSelected(r) ==
  /\ req[r].id > 0
  /\ req[r].pc \notin {"resolveParameters", "selectPhase"}
  /\ req[r].error.code # "AuthorizationParametersError"

\* C6: a login request is handled as the callback phase exactly when its
\* query has `code` or `error` (a `state` alone does not count); any other
\* request is handled as the authorization-request phase and ends in a
\* redirect, and only such requests are redirected.
C6_PhaseSelection ==
  \A r \in Reqs :
    LET query == req[r].query
        callback == query.code # UNDEF \/ query.error # UNDEF
    IN /\ PhaseSelected(r) => req[r].phase = (IF callback THEN "callback" ELSE "request")
       /\ req[r].phase = "callback" => callback /\ req[r].stored = None /\ req[r].got
       /\ req[r].phase = "request" =>
            /\ ~callback /\ ~req[r].got
            /\ req[r].pc \in {"challenge", "redirect", "idle"}
            /\ req[r].pc = "idle" => req[r].outcome = "redirect"
       /\ req[r].outcome = "redirect" => ~callback

\* A query with `state` alone was redirected.
C6_Witness ==
  \E r \in Reqs :
    /\ req[r].query.state = "forged"
    /\ req[r].query.code = UNDEF /\ req[r].query.error = UNDEF
    /\ req[r].outcome = "redirect"

\* A query with `error` alone was handled as a callback.
C6_WitnessError ==
  \E r \in Reqs :
    /\ req[r].query.error # UNDEF /\ req[r].query.code = UNDEF
    /\ req[r].phase = "callback"
    /\ req[r].grant # None

\* C7: the sink is invoked only after the token exchange has returned a
\* token set and, with a Verification Spec, after every listed token that is
\* defined in that token set has verified; it receives that token set and
\* the verified result (undefined without a spec).  A failed exchange or a
\* failed verification ends the request with that error and without a sink
\* call.
C7_SinkAfterExchangeAndVerify ==
  \A r \in Reqs :
    /\ (req[r].sink # None \/ req[r].pc = "write") =>
         /\ req[r].grant # None
         /\ req[r].tokenset \in {Some(t) : t \in GrantTokenSets}
         /\ IF options.verify = None
              THEN req[r].verified = None /\ req[r].verifiedOn = None
              ELSE /\ req[r].verifiedOn = req[r].tokenset
                   /\ req[r].verified # None
                   /\ LET verify == The(options.verify) IN
                      \A i \in 1..Len(verify.tokens) :
                        LET jwt == The(req[r].tokenset)[verify.tokens[i]]
                            result == jwtVerify(jwt, verify.key, verify.options)
                        IN jwt # UNDEF =>
                             /\ ~result.threw
                             /\ The(req[r].verified)[verify.tokens[i]] = result.value
    /\ req[r].sink # None =>
         /\ The(req[r].sink).tokenset = req[r].tokenset
         /\ The(req[r].sink).verified = req[r].verified
    /\ (req[r].grant # None /\ req[r].tokenset = None) =>
         /\ req[r].pc = "idle" /\ req[r].outcome = "error"
         /\ req[r].error.code \in {"AuthorizationResponseError", "TokenEndpointError"}
         /\ req[r].verifiedOn = None /\ req[r].sink = None
    /\ (req[r].verifiedOn # None /\ req[r].verified = None) =>
         /\ req[r].pc = "idle" /\ req[r].outcome = "error"
         /\ req[r].error.code = "ERR_JWS_SIGNATURE_VERIFICATION_FAILED"
         /\ req[r].sink = None

\* The sink received a verified token set.
C7_Witness ==
  \E r \in Reqs :
    /\ req[r].outcome = "sink"
    /\ req[r].verified # None
    /\ The(req[r].sink).verified = req[r].verified

\* A verification failure ended the request without a sink call.
C7_WitnessFailure ==
  \E r \in Reqs :
    /\ req[r].error.code = "ERR_JWS_SIGNATURE_VERIFICATION_FAILED"
    /\ req[r].sink = None
    /\ options.write # UNDEF

\* The state and nonce values generated so far, by redirects that have
\* stored them and by requests still computing the PKCE challenge.
Generated ==
  {[id |-> issued[i].id, state |-> issued[i].state, nonce |-> issued[i].nonce] :
     i \in 1..Len(issued)}
    \cup {[id |-> req[r].id, state |-> req[r].callbackChecks.state,
           nonce |-> req[r].callbackChecks.nonce] :
            r \in {q \in Reqs : req[q].pc = "challenge"}}

\* C8: every login redirect generates a non-empty state and a non-empty
\* nonce, and over the redirects of a behaviour no generated state or nonce
\* value occurs twice.
C8_FreshStateAndNonce ==
  \A a, b \in Generated :
    /\ NonEmpty(a.state) /\ NonEmpty(a.nonce)
    /\ a.state # b.nonce
    /\ a.id # b.id => a.state # b.state /\ a.nonce # b.nonce

\* Three redirects have generated their values.
C8_Witness ==
  /\ Len(issued) >= 2
  /\ Cardinality(Generated) >= 3

\* C9: with PKCE method S256 the authorization URL has
\* code_challenge_method=S256 and the S256 image of the pkceCodeVerifier the
\* same request stored as code_challenge; with method plain it has
\* code_challenge_method=plain and the stored verifier itself.  Caller
\* parameters with their own code_challenge do not change this.
C9_ChallengeMatchesVerifier ==
  \A r \in Reqs :
    req[r].authUrl # None =>
      LET searchParams == The(req[r].authUrl).searchParams
          verifier == IF req[r].stored = None THEN UNDEF
                      ELSE The(req[r].stored)["pkceCodeVerifier"]
      IN /\ handler.usePKCE = "S256" =>
              /\ NonEmpty(verifier)
              /\ searchParams["code_challenge_method"] = "S256"
              /\ searchParams["code_challenge"] = "S256(" \o verifier \o ")"
              /\ searchParams["code_challenge"] # verifier
         /\ handler.usePKCE = "plain" =>
              /\ NonEmpty(verifier)
              /\ searchParams["code_challenge_method"] = "plain"
              /\ searchParams["code_challenge"] = verifier

\* An S256 redirect whose caller parameters carried a code_challenge.
C9_Witness ==
  \E r \in Reqs :
    /\ req[r].outcome = "redirect"
    /\ handler.usePKCE = "S256"
    /\ OptGet(req[r].params, "code_challenge") = "caller-challenge"
    /\ The(req[r].authUrl).searchParams["code_challenge"] # "caller-challenge"

\* The factory has run with usePKCE: true.
Negotiated == handler.status # "none" /\ options.usePKCE = "true"

Supports(method) ==
  config.code_challenge_methods_supported # None
    /\ method \in The(config.code_challenge_methods_supported)

\* C10 as claimed: with usePKCE true the factory selects S256 when
\* code_challenge_methods_supported is undefined or has S256, else plain when
\* it has plain, else throws SupportedMethodError.
C10_AsClaimed ==
  Negotiated =>
    IF config.code_challenge_methods_supported = None \/ Supports("S256")
      THEN handler.status = "ready" => handler.usePKCE = "S256"
    ELSE IF Supports("plain")
      THEN handler.status = "ready" => handler.usePKCE = "plain"
    ELSE handler.status = "threw" /\ handler.error.code = "FST_SUPPORTED_METHOD"

\* C10, amended: with usePKCE true and a session key that resolves (a
\* sessionKey option, or an issuer identifier), the factory selects S256
\* when code_challenge_methods_supported is undefined or has S256, else
\* plain when it has plain, else throws SupportedMethodError; without a
\* session key it throws SessionKeyError first.  A factory that threw has
\* returned no handler, so no request is handled.
C10_Negotiation ==
  /\ Negotiated =>
       IF options.sessionKey = UNDEF /\ config.issuer = UNDEF
         THEN handler.status = "threw" /\ handler.error.code = "FST_SESSION_KEY"
       ELSE IF config.code_challenge_methods_supported = None \/ Supports("S256")
         THEN handler.status = "ready" /\ handler.usePKCE = "S256"
       ELSE IF Supports("plain")
         THEN handler.status = "ready" /\ handler.usePKCE = "plain"
       ELSE /\ handler.status = "threw"
            /\ handler.error.code = "FST_SUPPORTED_METHOD"
            /\ handler.error.statusCode = 500
  /\ handler.status # "ready" => started = 0 /\ \A r \in Reqs : req[r] = IdleReq

\* The factory threw SupportedMethodError.
C10_Witness ==
  /\ Negotiated
  /\ handler.error.code = "FST_SUPPORTED_METHOD"
  /\ config.code_challenge_methods_supported = Some({})

\* A redirect of a handler made with usePKCE false or not given.
PKCEDisabled(r) ==
  /\ req[r].authUrl # None
  /\ options.usePKCE \in {UNDEF, "false"}

NoPKCEInRedirect(r) ==
  /\ The(req[r].authUrl).searchParams["code_challenge"] = UNDEF
  /\ The(req[r].authUrl).searchParams["code_challenge_method"] = UNDEF
  /\ req[r].stored # None
  /\ The(req[r].stored)["pkceCodeVerifier"] = UNDEF
  /\ session[handler.sessionKey] # None =>
       The(session[handler.sessionKey])["pkceCodeVerifier"] = UNDEF

\* C11 as claimed: with usePKCE false or not given and caller parameters
\* without code_challenge, the authorization URL has neither code_challenge
\* nor code_challenge_method and the stored checks have no pkceCodeVerifier.
C11_AsClaimed ==
  \A r \in Reqs :
    (PKCEDisabled(r) /\ OptGet(req[r].params, "code_challenge") = UNDEF) =>
      NoPKCEInRedirect(r)

\* C11, amended: with usePKCE false or not given and caller parameters
\* with neither code_challenge nor code_challenge_method, the authorization
\* URL has neither of the two and the stored checks have no
\* pkceCodeVerifier; the stored checks have none whatever the caller
\* parameters are.
C11_PKCEDisabled ==
  \A r \in Reqs :
    PKCEDisabled(r) =>
      /\ The(req[r].stored)["pkceCodeVerifier"] = UNDEF
      /\ (/\ OptGet(req[r].params, "code_challenge") = UNDEF
          /\ OptGet(req[r].params, "code_challenge_method") = UNDEF) =>
           NoPKCEInRedirect(r)

\* A redirect sent without PKCE by a handler made without usePKCE.
C11_Witness ==
  \E r \in Reqs :
    /\ PKCEDisabled(r)
    /\ options.usePKCE = UNDEF
    /\ req[r].outcome = "redirect"
    /\ req[r].params # None
    /\ OptGet(req[r].params, "code_challenge") = UNDEF
    /\ OptGet(req[r].params, "code_challenge_method") = UNDEF
    /\ NoPKCEInRedirect(r)

\* The key the options and the issuer metadata call for.
ExpectedSessionKey ==
  IF options.sessionKey # UNDEF
    THEN options.sessionKey
    ELSE "oidc:" \o Hostname(config.issuer)

C12_State ==
  /\ handler.status = "ready" =>
       /\ options.sessionKey # UNDEF \/ config.issuer # UNDEF
       /\ handler.sessionKey = ExpectedSessionKey
  /\ (handler.status # "none" /\ options.sessionKey = UNDEF /\ config.issuer = UNDEF) =>
       /\ handler.status = "threw"
       /\ handler.error.code = "FST_SESSION_KEY"
       /\ handler.error.statusCode = 500
  /\ handler.error.code = "FST_SESSION_KEY" =>
       options.sessionKey = UNDEF /\ config.issuer = UNDEF

C12_Step ==
  /\ \A k \in SessionKeys : session'[k] # session[k] => k = ExpectedSessionKey
  /\ \A r \in Reqs :
       /\ (req[r].stored = None /\ req'[r].stored # None) =>
            session'[ExpectedSessionKey] = req'[r].stored
       /\ (~req[r].got /\ req'[r].got) =>
            /\ req'[r].loaded = session[ExpectedSessionKey]
            /\ req'[r].cleared => session'[ExpectedSessionKey] = None

\* C12: the factory resolves the session key to the sessionKey option when
\* given, otherwise to oidc:<hostname of the issuer identifier>, and throws
\* SessionKeyError (FST_SESSION_KEY) exactly when neither is defined; every
\* store of the redirect phase and every load and clear of the callback
\* phase act on the session entry under that one key and on no other entry.
C12_SessionKey == []C12_State /\ [][C12_Step]_vars

\* A callback consumed checks a redirect had stored under the sessionKey
\* option, with the entry under the issuer's key left as it was.
C12_Witness ==
  \E r \in Reqs :
    /\ options.sessionKey = "custom-session-key"
    /\ req[r].cleared
    /\ HasChecks(req[r].loaded)
    /\ session["custom-session-key"] = None
    /\ session["oidc:localhost"] = Some(EmptyChecks)

\* The factory threw SessionKeyError.
C12_WitnessError ==
  /\ handler.status = "threw"
  /\ handler.error.code = "FST_SESSION_KEY"

\* The defaults of lines 136-141 for a redirect: the generated state and
\* nonce are the ones the request keeps as its callback checks.
DefaultParameters(r) ==
  [EmptyParams EXCEPT !["scope"] = "openid",
                      !["response_type"] = "code",
                      !["state"] = req[r].callbackChecks.state,
                      !["nonce"] = req[r].callbackChecks.nonce,
                      !["redirect_uri"] =
                        IF OptGet(req[r].params, "redirect_uri") # UNDEF
                          THEN OptGet(req[r].params, "redirect_uri")
                        ELSE IF Len(config.redirect_uris) = 1
                          THEN config.redirect_uris[1]
                        ELSE ""]

PKCEKeys == {"code_challenge", "code_challenge_method"}

\* C13: the parameters of the authorization URL are scope=openid,
\* response_type=code, the generated state and nonce and the resolved
\* redirect_uri, except that every key of the resolved caller parameters
\* has the caller's value; keys the caller adds are in the URL, and the URL
\* has no key beyond the defaults, the caller's keys and the PKCE keys
\* (whose values are the handler's when PKCE is enabled).
C13_ParameterMerge ==
  \A r \in Reqs :
    req[r].authUrl # None =>
      LET searchParams == The(req[r].authUrl).searchParams
          defaults == DefaultParameters(r)
      IN /\ \A k \in {"scope", "response_type", "state", "nonce", "redirect_uri"} :
              /\ NonEmpty(defaults[k])
              /\ searchParams[k] = IF OptGet(req[r].params, k) # UNDEF
                                     THEN OptGet(req[r].params, k)
                                     ELSE defaults[k]
         /\ \A k \in AuthKeys :
              /\ OptGet(req[r].params, k) # UNDEF => searchParams[k] # UNDEF
              /\ (k \notin PKCEKeys \/ handler.usePKCE = "false") =>
                   searchParams[k] = IF OptGet(req[r].params, k) # UNDEF
                                       THEN OptGet(req[r].params, k)
                                       ELSE defaults[k]
         /\ req[r].params = None \/ options.parameters.kind # "undefined"
         /\ req[r].params # None => The(req[r].params) \in options.parameters.returns

\* A redirect whose per-request parameter function overrode state and
\* redirect_uri and left the other defaults in place.
C13_Witness ==
  \E r \in Reqs :
    /\ req[r].outcome = "redirect"
    /\ options.parameters.kind = "function"
    /\ The(req[r].authUrl).searchParams["state"] = "my-state"
    /\ The(req[r].authUrl).searchParams["redirect_uri"] = "http://localhost:8080/custom-login"
    /\ The(req[r].authUrl).searchParams["scope"] = "openid"
    /\ The(req[r].authUrl).searchParams["nonce"] = req[r].callbackChecks.nonce

\* A redirect whose static parameters overrode scope and added prompt.
C13_WitnessStatic ==
  \E r \in Reqs :
    /\ req[r].outcome = "redirect"
    /\ options.parameters.kind = "object"
    /\ The(req[r].authUrl).searchParams["scope"] = "openid profile email"
    /\ The(req[r].authUrl).searchParams["prompt"] = "consent"
    /\ The(req[r].authUrl).searchParams["state"] = req[r].callbackChecks.state

\* Errors of the JWT verification primitive.
JWTErrors ==
  {"ERR_JWS_INVALID", "ERR_JWKS_NO_MATCHING_KEY",
   "ERR_JWS_SIGNATURE_VERIFICATION_FAILED", "ERR_JWT_CLAIM_VALIDATION_FAILED"}

\* C14: a Verify Handler request calls read, then Token Verifier on the
\* token set read returned, then the sink (when one is configured) with that
\* token set and the verified result, in this order and each at most once;
\* when verification fails the request ends with the verification error and
\* the sink is not called.
C14_VerifyPipeline ==
  \A r \in Reqs :
    LET rec == req[r] IN
    /\ rec.calls = IF rec.id = 0 \/ rec.pc = "verify.read" THEN << >>
                    ELSE IF rec.pc = "verify.verify" THEN <<"read">>
                    ELSE IF rec.pc = "verify.write" THEN <<"read", "verify">>
                    ELSE IF rec.read = None THEN <<"read">>
                    ELSE IF rec.verified = None \/ options.write = UNDEF
                      THEN <<"read", "verify">>
                    ELSE <<"read", "verify", "write">>
    /\ Len(rec.calls) >= 2 => rec.read # None /\ rec.verifiedOn = rec.read
    /\ (Len(rec.calls) >= 2 /\ rec.verified = None) =>
         /\ rec.pc = "idle" /\ rec.outcome = "error"
         /\ rec.error.code \in JWTErrors
         /\ rec.sink = None
    /\ rec.sink # None =>
         /\ rec.verified # None
         /\ The(rec.sink).tokenset = rec.read
         /\ The(rec.sink).verified = rec.verified
         /\ rec.verified = Some(openIDJWTVerify(The(rec.read), handler.verify).value)
    /\ (rec.pc = "idle" /\ rec.id > 0) =>
         rec.outcome = IF rec.read = None \/ rec.verified = None THEN "error"
                       ELSE IF options.write = UNDEF THEN "noop"
                       ELSE IF rec.error.code = "SinkError" THEN "error"
                       ELSE "sink"

\* The sink was called after read and a verification with a result.
C14_Witness ==
  \E r \in Reqs :
    /\ req[r].outcome = "sink"
    /\ req[r].calls = <<"read", "verify", "write">>
    /\ The(req[r].verified)["id_token"] # None

\* A signature failure ended a request of a handler that has a sink.
C14_WitnessFailure ==
  \E r \in Reqs :
    /\ options.write # UNDEF
    /\ req[r].error.code = "ERR_JWS_SIGNATURE_VERIFICATION_FAILED"
    /\ req[r].calls = <<"read", "verify">>
    /\ req[r].sink = None

\* The token kinds a Verification Spec lists, and those of them that are
\* defined in a token set.
Listed(verify) == {verify.tokens[i] : i \in 1..Len(verify.tokens)}
ListedAndDefined(tokenset, verify) == {k \in Listed(verify) : tokenset[k] # UNDEF}
VerifiedKinds(verified) == {k \in TokenKeys : verified[k] # None}
Attempted(r) == {req[r].attempted[i] : i \in 1..Len(req[r].attempted)}

\* C15: when Token Verifier returns, its result has an entry for exactly
\* the token kinds that are listed in spec.tokens and defined in the token
\* set; a kind that is listed but undefined is not attempted, gets no entry
\* and raises no error, and a kind that is not listed is never attempted.
C15_ResultDomain ==
  \A r \in Reqs :
    req[r].verifiedOn # None =>
      LET tokenset == The(req[r].verifiedOn)
          wanted == ListedAndDefined(tokenset, handler.verify)
      IN /\ Attempted(r) \subseteq wanted
         /\ req[r].verified # None =>
              /\ VerifiedKinds(The(req[r].verified)) = wanted
              /\ Attempted(r) = wanted
         /\ wanted = {} => req[r].verified = Some(EmptyVerified)
         /\ req[r].verified = None =>
              \E k \in wanted : jwtVerify(tokenset[k], handler.verify.key,
                                          handler.verify.options).threw

\* A result with an entry for id_token alone: access_token is listed but
\* undefined, refresh_token is defined but not listed.
C15_Witness ==
  \E r \in Reqs :
    /\ options.tokens = <<"id_token", "access_token">>
    /\ req[r].verified # None
    /\ VerifiedKinds(The(req[r].verified)) = {"id_token"}
    /\ The(req[r].verifiedOn)["access_token"] = UNDEF
    /\ The(req[r].verifiedOn)["refresh_token"] # UNDEF

\* The listed token kinds that are defined in the token set, in the order
\* of spec.tokens.
WantedInOrder(tokenset, verify) ==
  LET Defined(k) == tokenset[k] # UNDEF IN SelectSeq(verify.tokens, Defined)

\* C16: Token Verifier hands the listed, defined token kinds to the
\* verification primitive in the order of spec.tokens; the first kind
\* whose verification throws ends the call with that kind's error, no kind
\* after it is attempted and no result is returned, and a call returns a
\* result only when every one of the kinds has verified.
C16_FailFast ==
  \A r \in Reqs :
    req[r].verifiedOn # None =>
      LET tokenset == The(req[r].verifiedOn)
          verify == handler.verify
          wanted == WantedInOrder(tokenset, verify)
          attempted == req[r].attempted
          Outcome(k) == jwtVerify(tokenset[k], verify.key, verify.options)
      IN /\ Len(attempted) <= Len(wanted)
         /\ attempted = SubSeq(wanted, 1, Len(attempted))
         /\ \A i \in 1..(Len(attempted) - 1) : ~Outcome(attempted[i]).threw
         /\ IF req[r].verified = None
              THEN /\ Len(attempted) >= 1
                   /\ Outcome(attempted[Len(attempted)]).threw
                   /\ req[r].error = Outcome(attempted[Len(attempted)]).error
                   /\ req[r].outcome = "error"
                   /\ req[r].sink = None
              ELSE /\ attempted = wanted
                   /\ \A i \in 1..Len(attempted) : ~Outcome(attempted[i]).threw

\* Two listed kinds would both fail; the call ended with the error of the
\* one listed first and the other was not attempted.
C16_Witness ==
  \E r \in Reqs :
    /\ options.tokens = <<"access_token", "id_token">>
    /\ req[r].verifiedOn # None
    /\ The(req[r].verifiedOn)["access_token"] = "opaque-at"
    /\ The(req[r].verifiedOn)["id_token"] = "jwt.tampered"
    /\ req[r].attempted = <<"access_token">>
    /\ req[r].error.code = "ERR_JWS_INVALID"
    /\ req[r].verified = None

\* A defined value that is not a JWT, such as the empty string.
Unusable(jwt) == jwt # UNDEF /\ jwt \notin JWTs

\* C17: a listed token kind whose value is defined but not a usable token
\* is not skipped: when it is the first listed, defined kind Token Verifier
\* attempts it and the Verify Handler ends with the primitive's
\* ERR_JWS_INVALID error; with any such kind listed the call returns no
\* result and the sink is not called.  Only kinds whose value is undefined
\* are skipped.
C17_DefinedIsPresent ==
  \A r \in Reqs :
    req[r].verifiedOn # None =>
      LET tokenset == The(req[r].verifiedOn)
          wanted == WantedInOrder(tokenset, handler.verify)
      IN /\ \A k \in Listed(handler.verify) :
              /\ tokenset[k] = UNDEF => k \notin Attempted(r)
              /\ Unusable(tokenset[k]) =>
                   /\ req[r].verified = None
                   /\ req[r].outcome = "error"
                   /\ req[r].error.code \in JWTErrors
                   /\ req[r].sink = None
         /\ (wanted # << >> /\ Unusable(tokenset[wanted[1]])) =>
              /\ req[r].attempted = <<wanted[1]>>
              /\ req[r].error.code = "ERR_JWS_INVALID"

\* The empty string under a listed kind was attempted and failed the
\* request.
C17_Witness ==
  \E r \in Reqs :
    /\ req[r].verifiedOn # None
    /\ The(req[r].verifiedOn)["id_token"] = ""
    /\ req[r].attempted = <<"id_token">>
    /\ req[r].outcome = "error"
    /\ req[r].error.code = "ERR_JWS_INVALID"

\* The same Verification Spec with the key given the other way: a resolver
\* function that returns the static key, or the key a resolver returns
\* given as static material.
OtherKeyPath(verify) ==
  [verify EXCEPT !.key = IF @.kind = "static" THEN KeyFunction(@.material)
                         ELSE StaticKey(@.material)]

\* The call of a request repeated with the key given the other way.
Twin(r) == openIDJWTVerify(The(req[r].verifiedOn), OtherKeyPath(handler.verify))

\* A request whose Token Verifier has run with a key that is, or resolves
\* to, key material.
VerifiedWithKey(r) ==
  /\ req[r].verifiedOn # None
  /\ handler.verify.key.material # UNDEF

\* A result map without the resolved keys: payload and header per kind.
Decoded(verified) ==
  [k \in TokenKeys |->
     IF verified[k] = None THEN None
     ELSE Some([payload |-> The(verified[k]).payload,
                protectedHeader |-> The(verified[k]).protectedHeader])]

\* C18 as claimed: with a static key and with a resolver function that
\* returns the same key, Token Verifier gives the same result map on
\* success and the same error on failure.
C18_AsClaimed ==
  \A r \in Reqs :
    VerifiedWithKey(r) =>
      IF req[r].verified = None
        THEN Twin(r).threw /\ Twin(r).error = req[r].error
        ELSE ~Twin(r).threw /\ Twin(r).value = The(req[r].verified)

\* C18, amended: with a static key and with a resolver function that
\* returns the same key, Token Verifier fails for the same inputs with the
\* same error, attempts the same kinds, and on success gives result maps
\* with the same kinds and the same payload and protected header for each
\* kind; the entries of the resolver path also carry the resolved key,
\* those of the static path do not.
C18_KeyPaths ==
  \A r \in Reqs :
    VerifiedWithKey(r) =>
      /\ Twin(r).attempted = req[r].attempted
      /\ IF req[r].verified = None
           THEN Twin(r).threw /\ Twin(r).error = req[r].error
           ELSE /\ ~Twin(r).threw
                /\ Decoded(Twin(r).value) = Decoded(The(req[r].verified))
                /\ \A k \in VerifiedKinds(The(req[r].verified)) :
                     The(The(req[r].verified)[k]).key =
                       IF handler.verify.key.kind = "function"
                         THEN handler.verify.key.material ELSE UNDEF

\* A resolver function's key verified an id_token.
C18_Witness ==
  \E r \in Reqs :
    /\ options.key = KeyFunction("k1")
    /\ req[r].verified # None
    /\ The(req[r].verified)["id_token"] # None
    /\ ~Twin(r).threw

\* A static key and its resolver twin failed with the same signature error.
C18_WitnessFailure ==
  \E r \in Reqs :
    /\ options.key = StaticKey("k1")
    /\ req[r].verifiedOn # None
    /\ req[r].error.code = "ERR_JWS_SIGNATURE_VERIFICATION_FAILED"
    /\ Twin(r).error = req[r].error

\* The call of a request made once more, on the token set object as the
\* first call left it.
Again(r) == openIDJWTVerify(The(req[r].tokenset), handler.verify)

\* C19: a call of Token Verifier leaves the token set object as it was
\* and the Verification Spec of the handler as it was configured, and a
\* second call with them attempts the same kinds and gives the same result
\* or the same error as the first, again leaving the token set unchanged.
C19_Idempotent ==
  /\ handler.status = "ready" =>
       handler.verify = [key |-> options.key, options |-> options.options,
                         tokens |-> options.tokens]
  /\ \A r \in Reqs :
       req[r].verifiedOn # None =>
         /\ req[r].tokenset = req[r].verifiedOn
         /\ req[r].tokenset = req[r].read
         /\ Again(r).tokenset = The(req[r].verifiedOn)
         /\ Again(r).attempted = req[r].attempted
         /\ IF req[r].verified = None
              THEN Again(r).threw /\ Again(r).error = req[r].error
              ELSE ~Again(r).threw /\ Again(r).value = The(req[r].verified)

\* A call that verified two kinds and left the token set as it was read.
C19_Witness ==
  \E r \in Reqs :
    /\ req[r].verified # None
    /\ VerifiedKinds(The(req[r].verified)) = {"id_token", "access_token"}
    /\ req[r].tokenset = req[r].read
    /\ Again(r).value = The(req[r].verified)

\* The token set a Refresh Handler request read is due at the time the
\* request looked at the clock.
Due(r) ==
  LET expires_at == The(req[r].read).expires_at
  IN expires_at.type # "number" \/ req[r].now >= expires_at.number * 1000

\* C20: the Refresh Handler takes the refresh branch exactly when
\* expires_at is absent or not a number, or the clock reading in
\* milliseconds is at least expires_at * 1000: then it throws for want of a
\* refresh_token or goes on to the refresh grant; otherwise it returns
\* with nothing done.
C20_Dueness ==
  \A r \in Reqs :
    req[r].read # None =>
      /\ req[r].expired = Some(Due(r))
      /\ IF Due(r)
           THEN IF The(req[r].read).refresh_token = UNDEF
                  THEN /\ req[r].outcome = "error"
                       /\ req[r].error.code = "FST_OPENID_REFRESH_TOKEN_MISSING"
                  ELSE req[r].pc = "refresh.tokenParameters" \/ Len(req[r].calls) >= 2
           ELSE /\ req[r].pc = "idle"
                /\ req[r].outcome = "noop"
                /\ req[r].error = NoError
                /\ req[r].calls = <<"read">>
                /\ req[r].grant = None

\* At the boundary, now = expires_at * 1000, the refresh grant was called.
C20_Witness ==
  \E r \in Reqs :
    /\ req[r].read # None
    /\ The(req[r].read).expires_at = JsonValue("number", 1)
    /\ req[r].now = 1000
    /\ req[r].grant # None

\* One millisecond before the boundary the handler returned with nothing
\* done.
C20_WitnessNotDue ==
  \E r \in Reqs :
    /\ req[r].read # None
    /\ The(req[r].read).expires_at = JsonValue("number", 2)
    /\ req[r].now = 1999
    /\ req[r].outcome = "noop"

\* An expires_at that is a string made the token set due.
C20_WitnessString ==
  \E r \in Reqs :
    /\ req[r].read # None
    /\ The(req[r].read).expires_at.type = "string"
    /\ req[r].now = 0
    /\ req[r].grant # None

\* A Refresh Handler request read a token set whose expires_at is a number
\* and lies in the future of the request's clock reading.
NotDue(r) ==
  /\ req[r].read # None
  /\ The(req[r].read).expires_at.type = "number"
  /\ req[r].now < The(req[r].read).expires_at.number * 1000

\* C21: a Refresh Handler request whose token set has a numeric expires_at
\* in the future returns with nothing done: no parameter resolution, no
\* refresh grant, no verification, no sink call, no response and no error,
\* with or without a refresh_token.
C21_NotDueNoop ==
  \A r \in Reqs :
    NotDue(r) =>
      /\ req[r].pc = "idle"
      /\ req[r].outcome = "noop"
      /\ req[r].error = NoError
      /\ req[r].calls = <<"read">>
      /\ req[r].tokenParams = None
      /\ req[r].grant = None
      /\ req[r].tokenset = None
      /\ req[r].verifiedOn = None /\ req[r].verified = None
      /\ req[r].sink = None

\* A token set without refresh_token that is not due, read by a handler
\* with a Verification Spec and a sink: the request returned.
C21_Witness ==
  \E r \in Reqs :
    /\ NotDue(r)
    /\ The(req[r].read).refresh_token = UNDEF
    /\ options.verify # None /\ options.write # UNDEF
    /\ req[r].outcome = "noop"

\* C22: a Refresh Handler request whose token set is due and has no
\* refresh_token ends with OpenIDRefreshTokenMissingError
\* (FST_OPENID_REFRESH_TOKEN_MISSING, status 400), having resolved no
\* token-endpoint parameters, made no refresh grant call, run no
\* verification and called no sink; the error is thrown in no other case.
C22_MissingRefreshToken ==
  \A r \in Reqs :
    /\ (req[r].read # None /\ Due(r) /\ The(req[r].read).refresh_token = UNDEF) =>
         /\ req[r].pc = "idle"
         /\ req[r].outcome = "error"
         /\ req[r].error.code = "FST_OPENID_REFRESH_TOKEN_MISSING"
         /\ req[r].error.statusCode = 400
         /\ req[r].error.message = "no refresh_token available"
         /\ req[r].calls = <<"read">>
         /\ req[r].tokenParams = None
         /\ req[r].grant = None
         /\ req[r].verifiedOn = None
         /\ req[r].sink = None
    /\ req[r].error.code = "FST_OPENID_REFRESH_TOKEN_MISSING" =>
         /\ req[r].read # None
         /\ Due(r)
         /\ The(req[r].read).refresh_token = UNDEF

\* A token set past its expiry and without refresh_token failed a request
\* of a handler that has a sink.
C22_Witness ==
  \E r \in Reqs :
    /\ req[r].read # None
    /\ The(req[r].read).expires_at = JsonValue("number", 1)
    /\ req[r].now = 1001
    /\ The(req[r].read).refresh_token = UNDEF
    /\ options.write # UNDEF
    /\ req[r].error.code = "FST_OPENID_REFRESH_TOKEN_MISSING"

\* The calls of a Refresh Handler request that runs to its end, in order.
RefreshCalls ==
  <<"read", "parameters", "grant">>
    \o (IF options.verify # None THEN <<"verify">> ELSE << >>)
    \o (IF options.write # UNDEF THEN <<"write">> ELSE << >>)

\* C23: a Refresh Handler request makes its calls in the order read,
\* token-endpoint parameters, refresh grant, verification (with a
\* Verification Spec), sink (when configured).  With a due token set that
\* has a refresh_token it calls the refresh grant with that refresh_token
\* unless the parameter function threw; verification runs on the token set
\* the grant returned and the sink receives that token set and the
\* verification's result, never the token set that was read.
C23_RefreshPath ==
  \A r \in Reqs :
    LET rec == req[r] IN
    /\ Len(rec.calls) <= Len(RefreshCalls)
    /\ rec.calls = SubSeq(RefreshCalls, 1, Len(rec.calls))
    /\ (rec.read # None /\ Due(r) /\ The(rec.read).refresh_token # UNDEF
          /\ rec.pc = "idle") =>
         rec.grant # None \/ rec.error.code = "TokenParametersError"
    /\ rec.grant # None =>
         /\ Due(r)
         /\ The(rec.grant).refreshToken # UNDEF
         /\ The(rec.grant).refreshToken = The(rec.read).refresh_token
         /\ The(rec.grant).parameters = rec.tokenParams
    /\ rec.tokenset # None => rec.grant # None /\ The(rec.tokenset) \in GrantTokenSets
    /\ rec.verifiedOn # None =>
         /\ options.verify # None
         /\ rec.verifiedOn = rec.tokenset
         /\ rec.verifiedOn # rec.read
    /\ (rec.pc = "refresh.write" \/ rec.sink # None) =>
         /\ rec.tokenset # None
         /\ IF options.verify = None
              THEN rec.verifiedOn = None /\ rec.verified = None
              ELSE /\ rec.verifiedOn = rec.tokenset
                   /\ rec.verified =
                        Some(openIDJWTVerify(The(rec.tokenset), The(options.verify)).value)
    /\ rec.sink # None =>
         /\ The(rec.sink).tokenset = rec.tokenset
         /\ The(rec.sink).tokenset # rec.read
         /\ The(rec.sink).verified = rec.verified
         /\ rec.calls = RefreshCalls

\* The sink received a new token set and its verification result.
C23_Witness ==
  \E r \in Reqs :
    /\ req[r].outcome = "sink"
    /\ req[r].calls = <<"read", "parameters", "grant", "verify", "write">>
    /\ The(The(req[r].sink).tokenset) \in GrantTokenSets
    /\ The(req[r].sink).verified # None
    /\ The(The(req[r].sink).verified)["id_token"] # None

\* Number of calls of one kind a request has made.
RECURSIVE Count(_, _)
Count(calls, kind) ==
  IF calls = << >> THEN 0
  ELSE (IF Head(calls) = kind THEN 1 ELSE 0) + Count(Tail(calls), kind)

Granting(r) == req[r].pc \in {"grant", "refresh.grant"}
Verifying(r) == req[r].pc \in {"verify", "refresh.verify"}

C24_State ==
  options.handler \in {"login", "refresh"} =>
    \A r \in Reqs :
      LET rec == req[r]
      IN /\ Count(rec.calls, "grant") <= 1
         /\ rec.grant # None <=> Count(rec.calls, "grant") = 1
         /\ (rec.grant # None /\ rec.sink # None) =>
              /\ rec.tokenset # None
              /\ options.verify # None => rec.verified # None
         /\ (rec.grant # None /\ rec.tokenset = None /\ ~Granting(r)) =>
              /\ rec.pc = "idle"
              /\ rec.outcome = "error"
              /\ rec.error.code \in {"AuthorizationResponseError", "TokenEndpointError"}

C24_Step ==
  options.handler \in {"login", "refresh"} =>
    \A r \in Reqs :
      /\ (Granting(r) /\ req'[r] # req[r]) =>
           /\ Count(req'[r].calls, "grant") = 1
           /\ \/ req'[r].tokenset # None /\ Verifying(r)'
              \/ /\ req'[r].tokenset = None
                 /\ req'[r].pc = "idle"
                 /\ req'[r].outcome = "error"
                 /\ req'[r].sink = None
      /\ (Verifying(r) /\ req'[r] # req[r] /\ options.verify # None) =>
           LET res == openIDJWTVerify(The(req[r].tokenset), The(options.verify))
           IN res.threw =>
                /\ req'[r].pc = "idle"
                /\ req'[r].outcome = "error"
                /\ req'[r].error = res.error
                /\ req'[r].sink = None
                /\ req'[r].calls \in {req[r].calls, Append(req[r].calls, "verify")}

\* C24: within one request the login callback invokes the token exchange
\* at most once and the Refresh Handler invokes the refresh grant at most
\* once; when that call or the verification after it fails, the request
\* ends with that error, nothing is called again and the sink is not
\* invoked.
C24_NoRetries == []C24_State /\ [][C24_Step]_vars

\* A login callback whose token exchange failed: one exchange, no sink.
C24_Witness ==
  \E r \in Reqs :
    /\ options.handler = "login"
    /\ req[r].calls = <<"grant">>
    /\ req[r].error.code = "TokenEndpointError"
    /\ req[r].sink = None

\* A refresh whose grant failed, and one whose verification failed after
\* the grant.
C24_WitnessRefresh ==
  \E r \in Reqs :
    /\ options.handler = "refresh"
    /\ Count(req[r].calls, "grant") = 1
    /\ req[r].error.code = "TokenEndpointError"
    /\ req[r].sink = None

C24_WitnessVerification ==
  \E r \in Reqs :
    /\ options.handler \in {"login", "refresh"}
    /\ req[r].grant # None
    /\ req[r].tokenset # None
    /\ req[r].error.code \in JWTErrors
    /\ req[r].sink = None

\* The requests of a Logout Handler that are past the choice of branch.
LogoutSelected(rec) ==
  /\ rec.id # 0
  /\ rec.pc \notin {"logout.read", "logout.parameters", "logout.select"}
  /\ rec.outcome # "error"

\* The resolved post_logout_redirect_uri is non-empty, parses as an
\* absolute URL, and the request URL is its pathname and query string.
IsPostLogoutCallback(rec) ==
  LET uri == OptGet(rec.params, "post_logout_redirect_uri")
  IN /\ uri # UNDEF
     /\ uri # ""
     /\ \E u \in AbsoluteURLs : u.href = uri /\ rec.url = u.pathname \o u.search

\* C25: the Logout Handler takes the post-logout callback branch if and
\* only if the resolved parameters hold a non-empty post_logout_redirect_uri
\* that parses as an absolute URL and the request URL equals that URI's
\* pathname followed by its query string; in that branch it verifies the
\* read token set when a Verification Spec is configured, the sink is
\* invoked with the read token set and the verification result, and no
\* end-session redirect is issued.
C25_CallbackBranch ==
  options.handler = "logout" =>
    \A r \in Reqs :
      LET rec == req[r]
      IN /\ LogoutSelected(rec) => (rec.phase = "callback" <=> IsPostLogoutCallback(rec))
         /\ rec.phase = "callback" =>
              /\ LogoutSelected(rec)
              /\ rec.endSessionUrl = None
              /\ rec.status # 302
              /\ rec.verifiedOn = IF options.verify # None /\ rec.pc # "logout.verify"
                                    THEN rec.read ELSE None
              /\ rec.sink # None =>
                   /\ rec.sink = Some([tokenset |-> rec.read, verified |-> rec.verified])
                   /\ rec.verified =
                        IF options.verify = None THEN None
                        ELSE Some(openIDJWTVerify(The(rec.read), The(options.verify)).value)
              /\ rec.outcome \in {"sink", "noop"} =>
                   (rec.sink # None <=> options.write # UNDEF)
         /\ rec.phase # "callback" => rec.sink = None /\ rec.verifiedOn = None

\* A request for the pathname of a post_logout_redirect_uri written with
\* dot segments and a fragment was verified and handed to the sink.
C25_Witness ==
  \E r \in Reqs :
    /\ options.handler = "logout"
    /\ OptGet(req[r].params, "post_logout_redirect_uri")
         = "http://localhost:8080/a/../logout#top"
    /\ req[r].url = "/logout"
    /\ req[r].outcome = "sink"
    /\ req[r].verified # None

\* A request for another path than the URI's was redirected.
C25_WitnessOtherPath ==
  \E r \in Reqs :
    /\ options.handler = "logout"
    /\ req[r].callbackPath = Some("/logout?state=some-state")
    /\ req[r].url = "/logout"
    /\ req[r].outcome = "redirect"

\* The resolved post_logout_redirect_uri is absent, or it parses as an
\* absolute URL.
ValidOrAbsent(rec) ==
  LET uri == OptGet(rec.params, "post_logout_redirect_uri")
  IN uri = UNDEF \/ \E u \in AbsoluteURLs : u.href = uri

\* The requests of the claim: past the choice of branch, not a callback.
InitialLogout(rec) ==
  LogoutSelected(rec) /\ rec.phase # "callback" /\ ValidOrAbsent(rec)

\* The reply redirects to the end-session endpoint with the resolved
\* parameters and the given id_token_hint.
RedirectsWithHint(rec, hint) ==
  /\ rec.outcome = "redirect"
  /\ rec.status = 302
  /\ rec.endSessionUrl # None
  /\ The(rec.endSessionUrl).endpoint = config.end_session_endpoint
  /\ \A k \in EndSessionKeys \ {"id_token_hint"} :
       The(rec.endSessionUrl).searchParams[k] = OptGet(rec.params, k)
  /\ The(rec.endSessionUrl).searchParams["id_token_hint"] = hint
  /\ rec.sink = None

\* C26 as stated: id_token_hint is tokenset.id_token when the token set
\* has one, and the redirect has no id_token_hint otherwise.
C26_AsClaimed ==
  options.handler = "logout" =>
    \A r \in Reqs :
      InitialLogout(req[r]) =>
        RedirectsWithHint(req[r], The(req[r].read).id_token)

\* C26: whenever the callback branch is not taken and the resolved
\* post_logout_redirect_uri is valid or absent, the handler redirects (302)
\* to the end-session URL built from the resolved parameters, with
\* id_token_hint equal to tokenset.id_token when that is a non-empty
\* string and otherwise with the id_token_hint of the resolved parameters,
\* if they have one; the sink is not invoked.
C26_InitialRequest ==
  options.handler = "logout" =>
    \A r \in Reqs :
      InitialLogout(req[r]) =>
        RedirectsWithHint(req[r],
          IF The(req[r].read).id_token \notin {UNDEF, ""}
            THEN The(req[r].read).id_token
            ELSE OptGet(req[r].params, "id_token_hint"))

\* A redirect whose parameters a function resolved for the request, with
\* the id_token of the token set as the hint.
C26_Witness ==
  \E r \in Reqs :
    /\ options.handler = "logout"
    /\ options.parameters.kind = "function"
    /\ InitialLogout(req[r])
    /\ req[r].params # None
    /\ The(req[r].endSessionUrl).searchParams["id_token_hint"] = "jwt.signed-by.k1"
    /\ The(req[r].endSessionUrl).searchParams["post_logout_redirect_uri"]
         = "http://localhost:8080/logged-out"

\* A redirect that carries the caller's id_token_hint: the token set has
\* no id_token.
C26_WitnessCallerHint ==
  \E r \in Reqs :
    /\ options.handler = "logout"
    /\ InitialLogout(req[r])
    /\ The(req[r].read).id_token = UNDEF
    /\ The(req[r].endSessionUrl).searchParams["id_token_hint"] = "caller-hint"

\* A redirect without id_token_hint and without parameters.
C26_WitnessNoHint ==
  \E r \in Reqs :
    /\ options.handler = "logout"
    /\ InitialLogout(req[r])
    /\ req[r].params = None
    /\ Keys(The(req[r].endSessionUrl).searchParams) = {}

\* The resolved post_logout_redirect_uri is non-empty and is not an
\* absolute URL.
InvalidPostLogoutUri(rec) ==
  LET uri == OptGet(rec.params, "post_logout_redirect_uri")
  IN uri # UNDEF /\ uri # "" /\ \A u \in AbsoluteURLs : u.href # uri

\* C27: when the resolved post_logout_redirect_uri is non-empty and is not
\* an absolute, parseable URL, the request ends with a 500 reply whose
\* body names ERR_INVALID_URL; no end-session redirect is issued, nothing
\* is verified and the sink is not invoked.
C27_InvalidUri ==
  options.handler = "logout" =>
    \A r \in Reqs :
      (LogoutSelected(req[r]) /\ InvalidPostLogoutUri(req[r])) =>
        /\ req[r].pc = "idle"
        /\ req[r].outcome = "send"
        /\ req[r].status = 500
        /\ req[r].body # None
        /\ The(req[r].body).error = "ERR_INVALID_URL"
        /\ req[r].endSessionUrl = None
        /\ req[r].verifiedOn = None
        /\ req[r].sink = None

\* A request answered 500 for the relative URI /relative/path.
C27_Witness ==
  \E r \in Reqs :
    /\ options.handler = "logout"
    /\ OptGet(req[r].params, "post_logout_redirect_uri") = "/relative/path"
    /\ req[r].status = 500
    /\ req[r].body = Some([error |-> "ERR_INVALID_URL", message |-> "ERR_INVALID_URL"])

C28_State ==
  options.handler = "resolver" =>
    \A r \in Reqs :
      LET rec == req[r]
          p == options.parameters
          called == rec.id # 0 /\ rec.pc # "resolver.call"
      IN /\ rec.calls = IF p.kind = "function" /\ called
                           THEN <<ParametersCall(rec.id)>> ELSE << >>
         /\ (rec.id # 0 /\ rec.pc = "idle") =>
              /\ p.kind = "undefined" => rec.outcome = "returned" /\ rec.params = None
              /\ p.kind = "object" => rec.outcome = "returned" /\ rec.params = p.returns
              /\ p.kind = "function" =>
                   \/ /\ rec.outcome = "returned"
                      /\ rec.params # None
                      /\ The(rec.params) \in p.returns
                   \/ /\ rec.outcome = "error"
                      /\ rec.error.code = p.throws
                      /\ rec.params = None
              /\ rec.outcome = "error" => p.kind = "function"

C28_Step ==
  options.handler = "resolver" =>
    /\ UNCHANGED <<options, config, handler, loginVars>>
    /\ \A r \in Reqs : req'[r] # req[r] => \A q \in Reqs \ {r} : req'[q] = req[q]

\* C28: resolveParameters(p, request, reply) resolves to undefined when p
\* is undefined and to p itself when p is a mapping; when p is a function
\* it calls p exactly once, with the request and the reply it was given,
\* and resolves to its answer or rejects with its error; it changes
\* nothing else.
C28_ParameterResolver == []C28_State /\ [][C28_Step]_vars

\* Two calls for two requests were in flight together; the function was
\* called once for each, answered the first and threw for the second.
C28_Witness ==
  /\ options.handler = "resolver"
  /\ options.parameters.kind = "function"
  /\ req[1].calls = <<ParametersCall(1)>>
  /\ req[2].calls = <<ParametersCall(2)>>
  /\ req[1].outcome = "returned"
  /\ req[1].params # None
  /\ req[2].outcome = "error"

\* A mapping and undefined were resolved without any call.
C28_WitnessObject ==
  /\ options.handler = "resolver"
  /\ options.parameters.kind = "object"
  /\ req[1].outcome = "returned"
  /\ req[1].params = options.parameters.returns

C28_WitnessUndefined ==
  /\ options.handler = "resolver"
  /\ options.parameters.kind = "undefined"
  /\ req[1].outcome = "returned"
  /\ req[1].params = None

\* Errors that are a collaborator's answer to the request.
CollaboratorCodes ==
  {"ReadError", "ParametersError", "AuthorizationParametersError",
   "TokenParametersError", "AuthorizationResponseError", "TokenEndpointError",
   "SinkError"}

SinkThrew(rec) == rec.sink # None /\ rec.outcome # "sink"

\* What a request was given: its URL and query, the read result, the
\* clock, the resolved parameters, the session entry it loaded, the
\* values the random source drew for it, the token endpoint's answer and
\* the collaborator that failed, if one did.
Inputs(rec) ==
  <<rec.url, rec.query, rec.read, rec.now, rec.params, rec.tokenParams,
    rec.got, rec.loaded,
    IF rec.phase = "request" THEN rec.callbackChecks ELSE EmptyChecks,
    IF rec.grant # None THEN rec.tokenset ELSE None,
    IF rec.error.code \in CollaboratorCodes THEN rec.error.code ELSE UNDEF,
    SinkThrew(rec)>>

\* What the request did and how it ended.
Outputs(rec) ==
  <<rec.outcome, rec.error, rec.phase, rec.status, rec.body, rec.endSessionUrl,
    rec.authUrl, rec.stored, rec.cleared, rec.expired, rec.grant,
    rec.verifiedOn, rec.verified, rec.sink, rec.calls>>

Ended(rec) == rec.id # 0 /\ rec.pc = "idle"

C29_State ==
  \A r, q \in Reqs :
    (Ended(req[r]) /\ Ended(req[q]) /\ Inputs(req[r]) = Inputs(req[q])) =>
      Outputs(req[r]) = Outputs(req[q])

C29_Step ==
  /\ handler.status # "none" => UNCHANGED <<handler, options, config, inFlight>>
  /\ \A r \in Reqs : req'[r] # req[r] => \A q \in Reqs \ {r} : req'[q] = req[q]
  /\ options.handler = "login" =>
       \A k \in SessionKeys : session'[k] # session[k] => k = handler.sessionKey
  /\ options.handler # "login" => UNCHANGED session

\* C29: a request changes its own locals only; the handler, its options
\* and its configuration stay as the factory left them, and the login
\* handler writes the session entry under the session key and nothing
\* else.  Two requests that were given the same inputs end with the same
\* outcome, whatever requests were handled before them or were in flight
\* with them; for a login request the inputs include the session entry it
\* loaded.
C29_NoSharedState == []C29_State /\ [][C29_Step]_vars

\* Two Verify Handler requests in flight together, a third one handled
\* after the first: the two that remain were given the same token set
\* and both reached the sink.
C29_Witness ==
  /\ options.handler = "verify"
  /\ req[1].id = 3
  /\ req[2].id = 2
  /\ req[1].read = req[2].read
  /\ req[1].outcome = "sink"
  /\ req[2].outcome = "sink"

C29_WitnessRefresh ==
  /\ options.handler = "refresh"
  /\ req[1].id = 3
  /\ req[2].id = 2
  /\ Inputs(req[1]) = Inputs(req[2])
  /\ req[1].grant # None
  /\ req[1].outcome = "sink"
  /\ req[2].outcome = "sink"

C29_WitnessLogout ==
  /\ options.handler = "logout"
  /\ req[1].id = 3
  /\ req[2].id = 2
  /\ Inputs(req[1]) = Inputs(req[2])
  /\ req[1].outcome = "redirect"
  /\ req[2].outcome = "redirect"

\* Two login callbacks that loaded the same session entry.
C29_WitnessLogin ==
  /\ options.handler = "login"
  /\ req[2].id # 0
  /\ req[1].id # 0
  /\ Ended(req[1]) /\ Ended(req[2])
  /\ req[1].got /\ req[2].got
  /\ Inputs(req[1]) = Inputs(req[2])

\* The request numbers.
Ids == 1..MaxRequests

\* Request i is being handled in slot r.
Handling(r, i) == req[r].id = i /\ req[r].pc # "idle"

\* Request i has ended in slot r with one of the given outcomes.
EndedWith(r, i, outcomes) ==
  req[r].id = i /\ req[r].pc = "idle" /\ req[r].outcome \in outcomes

C30_WitnessSend ==
  \E r \in Reqs :
    /\ options.handler = "logout"
    /\ req[r].pc = "idle"
    /\ req[r].outcome = "send"
    /\ req[r].status = 500

\* C31: for every login redirect, whatever the caller parameters are, the
\* state and the nonce stored in the session equal the state and nonce
\* query parameters of the authorization URL the redirect goes to.
C31_StoredMatchesEmitted ==
  options.handler = "login" =>
    \A r \in Reqs :
      (req[r].stored # None /\ req[r].authUrl # None) =>
        /\ The(req[r].stored).state = The(req[r].authUrl).searchParams["state"]
        /\ The(req[r].stored).nonce = The(req[r].authUrl).searchParams["nonce"]

\* The verification of the callback branch failed for this request.
LogoutVerificationFailed(rec) ==
  /\ rec.phase = "callback"
  /\ rec.verifiedOn # None
  /\ openIDJWTVerify(The(rec.read), The(options.verify)).threw

\* C32: in the post-logout callback branch a verification failure and a
\* failure of the sink reach the host as that error; the 500 reply that
\* names ERR_INVALID_URL is sent only for a post_logout_redirect_uri that
\* is not an absolute URL.
C32_DistinguishableErrors ==
  options.handler = "logout" =>
    \A r \in Reqs :
      LET rec == req[r]
      IN /\ (rec.body # None /\ The(rec.body).error = "ERR_INVALID_URL") =>
              InvalidPostLogoutUri(rec)
         /\ (Ended(rec) /\ LogoutVerificationFailed(rec)) =>
              /\ rec.outcome = "error"
              /\ rec.error = openIDJWTVerify(The(rec.read), The(options.verify)).error
         /\ (Ended(rec) /\ rec.sink # None /\ rec.outcome # "sink") =>
              /\ rec.outcome = "error"
              /\ rec.error.code = "SinkError"

\* The three ways to the 500 reply: an invalid URI, a failed verification
\* and a failed sink.
C32_SentForInvalidUri ==
  \E r \in Reqs :
    /\ options.handler = "logout"
    /\ req[r].status = 500
    /\ InvalidPostLogoutUri(req[r])

C32_SentForVerification ==
  \E r \in Reqs :
    /\ options.handler = "logout"
    /\ LogoutVerificationFailed(req[r])
    /\ req[r].body = Some([error |-> "ERR_INVALID_URL",
                           message |-> "ERR_JWS_SIGNATURE_VERIFICATION_FAILED"])

C32_SentForSink ==
  \E r \in Reqs :
    /\ options.handler = "logout"
    /\ req[r].sink # None
    /\ req[r].body = Some([error |-> "ERR_INVALID_URL", message |-> "SinkError"])

\* C33: a request whose URL is the pathname and query of the
\* post_logout_redirect_uri is handled as the callback whatever was handled
\* before it, the first request of a handler included: its sink is invoked
\* once the verification has passed, and it never ends in an end-session
\* redirect; a request that is redirected is not such a request.
C33_StatelessCallback ==
  options.handler = "logout" =>
    \A r \in Reqs :
      LET rec == req[r]
      IN /\ (LogoutSelected(rec) /\ IsPostLogoutCallback(rec)) =>
              /\ rec.phase = "callback"
              /\ rec.outcome # "redirect"
              /\ rec.endSessionUrl = None
              /\ (Ended(rec) /\ options.write # UNDEF
                    /\ ~LogoutVerificationFailed(rec)) => rec.sink # None
         /\ rec.outcome = "redirect" => ~IsPostLogoutCallback(rec)

\* The first request a handler was given is the callback and reached the
\* sink: no redirect was issued before it.
C33_Witness ==
  \E r \in Reqs :
    /\ options.handler = "logout"
    /\ started = 1
    /\ req[r].id = 1
    /\ IsPostLogoutCallback(req[r])
    /\ req[r].outcome = "sink"

\* The id_token_hint of the end-session redirect of a request.
RedirectHint(rec) == The(rec.endSessionUrl).searchParams["id_token_hint"]

\* C34: in an end-session redirect the id_token_hint is the id_token of
\* the read token set when that is a non-empty string, also when the
\* resolved parameters supply an id_token_hint of their own; when the token
\* set has no id_token, the id_token_hint of the resolved parameters is
\* passed through as it is.
C34_HintPrecedence ==
  options.handler = "logout" =>
    \A r \in Reqs :
      req[r].endSessionUrl # None =>
        LET id_token == The(req[r].read).id_token
        IN /\ id_token \notin {UNDEF, ""} => RedirectHint(req[r]) = id_token
           /\ id_token = UNDEF =>
                RedirectHint(req[r]) = OptGet(req[r].params, "id_token_hint")

\* A redirect whose parameters supply caller-hint and whose token set has
\* an id_token: the hint is the id_token.
C34_Witness ==
  \E r \in Reqs :
    /\ options.handler = "logout"
    /\ req[r].endSessionUrl # None
    /\ OptGet(req[r].params, "id_token_hint") = "caller-hint"
    /\ The(req[r].read).id_token = "jwt.signed-by.k1"
    /\ RedirectHint(req[r]) = "jwt.signed-by.k1"

\* A redirect that passes caller-hint through.
C34_WitnessPassThrough ==
  \E r \in Reqs :
    /\ options.handler = "logout"
    /\ req[r].endSessionUrl # None
    /\ The(req[r].read).id_token = UNDEF
    /\ RedirectHint(req[r]) = "caller-hint"

\* The redirects whose checks were no longer the stored ones when the
\* request loaded the session entry.
Overwritten(rec) ==
  {i \in 1..Len(issued) : issued[i].state # The(rec.latestAtLoad).state}

C35_State ==
  options.handler = "login" =>
    \A r \in Reqs :
      LET rec == req[r]
      IN rec.grant # None =>
           /\ rec.latestAtLoad # None
           /\ The(rec.grant).checks = GrantChecks(The(rec.latestAtLoad))
           /\ \A i \in Overwritten(rec) :
                /\ The(rec.grant).checks.expectedState # issued[i].state
                /\ The(rec.grant).checks.expectedNonce # issued[i].nonce
                /\ (rec.query.state = issued[i].state /\ rec.pc # "grant") =>
                     /\ rec.tokenset = None
                     /\ rec.error.code = "AuthorizationResponseError"

C35_Step ==
  options.handler = "login" =>
    \A r \in Reqs :
      (req[r].stored = None /\ req'[r].stored # None) =>
        /\ session'[handler.sessionKey] = req'[r].stored
        /\ lastStored' = req'[r].stored

\* C35: a login redirect issued while earlier checks are stored under the
\* session key overwrites them; a callback is then exchanged with the
\* state, nonce and verifier of the most recent redirect and with no
\* values of an overwritten redirect, and a callback that echoes the state
\* of an overwritten redirect fails the exchange.
C35_Overlapping == []C35_State /\ [][C35_Step]_vars

\* Two redirects on one session, then the callback of the first one: the
\* exchange was attempted with the second redirect's values and failed.
C35_Witness ==
  \E r \in Reqs :
    /\ options.handler = "login"
    /\ Len(issued) = 2
    /\ req[r].grant # None
    /\ req[r].query.state = issued[1].state
    /\ The(req[r].grant).checks.expectedState = issued[2].state
    /\ req[r].error.code = "AuthorizationResponseError"

\* The callback of the second redirect was exchanged.
C35_WitnessLatest ==
  \E r \in Reqs :
    /\ options.handler = "login"
    /\ Len(issued) = 2
    /\ req[r].query.state = issued[2].state
    /\ req[r].tokenset # None

\* The request obtained Authorization Checks from the session.
Obtained(rec) == rec.got /\ rec.loaded # None /\ Keys(The(rec.loaded)) # {}

C36_State ==
  options.handler = "login" =>
    /\ numConsumed <= numStores
    /\ \A r \in Reqs :
         /\ Obtained(req[r]) <=> req[r].cleared
         /\ req[r].grant # None => Obtained(req[r])
         /\ (req[r].got /\ ~Obtained(req[r])) =>
              /\ req[r].error.code = "FST_SESSION_VALUE"
              /\ req[r].grant = None
         /\ req[r].replay => ~Obtained(req[r])
    /\ \A r, q \in Reqs :
         (r # q /\ Obtained(req[r]) /\ Obtained(req[q])) =>
           req[r].loaded # req[q].loaded

C36_Step ==
  options.handler = "login" =>
    \A r \in Reqs :
      (~req[r].got /\ req'[r].got /\ Obtained(req'[r])) =>
        /\ req'[r].loaded = session[handler.sessionKey]
        /\ session'[handler.sessionKey] = None

\* C36: the step that loads the Authorization Checks also clears the
\* session entry, so no two callback requests obtain the same checks: of
\* two callbacks in flight together on one session after one redirect, one
\* obtains the checks and reaches the token exchange and the other fails
\* with SessionValueError.
C36_ConcurrentCallbacks == []C36_State /\ [][C36_Step]_vars

\* Two callbacks in flight together after one redirect: the first
\* reached the exchange, the second failed with SessionValueError.
C36_Witness ==
  /\ options.handler = "login"
  /\ inFlight = 2
  /\ numStores = 1
  /\ req[1].got /\ req[2].got
  /\ req[1].grant # None
  /\ req[2].error.code = "FST_SESSION_VALUE"
  /\ req[2].replay

C37_State ==
  \A r \in Reqs :
    LET rec == req[r]
    IN /\ (options.handler = "login" /\ rec.phase = "request") =>
            /\ rec.grant = None
            /\ rec.tokenset = None
            /\ rec.verifiedOn = None
            /\ rec.sink = None
            /\ rec.calls = << >>
            /\ ~rec.got
       /\ (options.handler = "login" /\ rec.phase = "callback") =>
            /\ rec.stored = None
            /\ rec.authUrl = None
       /\ options.handler # "login" =>
            /\ ~rec.got
            /\ rec.loaded = None
            /\ rec.stored = None
            /\ ~rec.cleared

C37_Step ==
  /\ options.handler = "login" =>
       \A r \in Reqs :
         (req'[r] # req[r] /\ req'[r].phase = "callback") =>
           \A k \in SessionKeys : session'[k] # session[k] => session'[k] = None
  /\ options.handler # "login" => UNCHANGED loginVars

\* C37: a login request in the redirect phase never calls the token
\* exchange, the Token Verifier or the sink; a login request in the
\* callback phase never stores a value in the session, it only clears the
\* entry; the Verify, Refresh and Logout handlers never load or store the
\* login session entry.
C37_Frames == []C37_State /\ [][C37_Step]_vars

\* One session: a redirect that stored checks and ended, and a callback
\* that consumed them and reached the sink.
C37_Witness ==
  /\ options.handler = "login"
  /\ \E r, q \in Reqs :
       /\ req[r].phase = "request"
       /\ req[r].outcome = "redirect"
       /\ req[r].stored # None
       /\ req[q].phase = "callback"
       /\ req[q].cleared
       /\ req[q].outcome = "sink"

\* A Refresh Handler request that reached the sink after a grant, the
\* session as it was.
C37_WitnessRefresh ==
  \E r \in Reqs :
    /\ options.handler = "refresh"
    /\ req[r].grant # None
    /\ req[r].outcome = "sink"
    /\ session = [k \in SessionKeys |-> None]

\* C38: the Refresh Handler resolves the token-endpoint parameters only
\* after read has answered with a token set that is due and has a
\* refresh_token; for a token set that is not due, or is due without a
\* refresh_token, the parameters are never resolved, so a parameter
\* function is never called.
C38_ParametersAfterChecks ==
  options.handler = "refresh" =>
    \A r \in Reqs :
      LET rec == req[r]
      IN /\ Count(rec.calls, "parameters") <= 1
         /\ Count(rec.calls, "parameters") = 1 =>
              /\ rec.read # None
              /\ Due(r)
              /\ The(rec.read).refresh_token # UNDEF
              /\ rec.calls[1] = "read"
              /\ rec.calls[2] = "parameters"
         /\ (rec.read # None /\ (NotDue(r) \/ The(rec.read).refresh_token = UNDEF)) =>
              /\ Count(rec.calls, "parameters") = 0
              /\ rec.tokenParams = None
              /\ rec.error.code # "TokenParametersError"

\* A handler with a parameter function: a due token set with a
\* refresh_token had its parameters resolved by the function.
C38_Witness ==
  \E r \in Reqs :
    /\ options.handler = "refresh"
    /\ options.tokenEndpoint.kind = "function"
    /\ req[r].read # None
    /\ The(req[r].read).refresh_token = "opaque-rt"
    /\ req[r].calls = <<"read", "parameters">>
    /\ req[r].tokenParams # None

\* With the same handler, a due token set without refresh_token ended
\* with the missing-token error and the function was not called.
C38_WitnessMissingToken ==
  \E r \in Reqs :
    /\ options.handler = "refresh"
    /\ options.tokenEndpoint.kind = "function"
    /\ req[r].error.code = "FST_OPENID_REFRESH_TOKEN_MISSING"
    /\ req[r].calls = <<"read">>

\* The resolution of the authorization parameters threw for the request.
ParametersThrew(rec) == rec.error.code = "AuthorizationParametersError"

C39_State ==
  options.handler = "login" =>
    \A r \in Reqs :
      LET rec == req[r]
      IN /\ ParametersThrew(rec) =>
              /\ rec.pc = "idle"
              /\ rec.outcome = "error"
              /\ rec.phase = "none"
              /\ ~rec.got
              /\ rec.loaded = None
              /\ ~rec.cleared
              /\ rec.grant = None
              /\ rec.sink = None
         /\ rec.phase # "none" => ~ParametersThrew(rec) /\ rec.pc # "resolveParameters"

C39_Step ==
  options.handler = "login" =>
    \A r \in Reqs :
      (req[r].pc = "resolveParameters" /\ req'[r] # req[r]) =>
        /\ session' = session
        /\ req'[r].phase = "none"
        /\ req'[r].pc \in {"selectPhase", "idle"}

\* C39: the login handler resolves the authorization parameters on every
\* request before it selects the phase; when the resolution throws on a
\* callback request the request ends with that error before the session
\* entry is loaded or cleared, and the session is left as it was.
C39_ParametersBeforePhase == []C39_State /\ [][C39_Step]_vars

\* A callback request ended with the parameter function's error while
\* the checks of a redirect are still stored.
C39_Witness ==
  \E r \in Reqs :
    /\ options.handler = "login"
    /\ handler.status = "ready"
    /\ isCallback(req[r].query)
    /\ ParametersThrew(req[r])
    /\ HasChecks(session[handler.sessionKey])
    /\ session[handler.sessionKey] = lastStored

====
